---------------------------- MODULE Spec2Model ----------------------------
(***************************************************************************)
(* Model of the electronic drum module firmware (src/main.c): the per-pad  *)
(* hit-detection state machines driven by loop(), the hi-hat pedal         *)
(* handling and the MIDI event emitter with its "playing" flags.           *)
(*                                                                         *)
(* One action, Pass, is one execution of loop(): the pedal block, then     *)
(* the simple pads 0..4, then the dual-zone pads 5, 7, 9.  What loop()     *)
(* reads from the hardware (digitalRead, analogRead, millis) is an input   *)
(* of the action.  The steps are written as operators on a record `s'      *)
(* holding the program's global variables, composed in source order.       *)
(*                                                                         *)
(* Arithmetic follows the target (AVR): int values stay far below 2^15,    *)
(* long/unsigned long are 32 bit, C division truncates toward zero.  The   *)
(* float factors (1.5, 1.1, 0.05, 1.2, 7) are applied exactly as rationals;*)
(* for readings in 0..1023 the 32-bit float products round to the same     *)
(* comparisons and truncations.                                            *)
(* peakFoundTime[] is written by the code but never read; it is left out.  *)
(***************************************************************************)
EXTENDS Integers, Sequences, FiniteSets, TLC

---------------------------------------------------------------------------
(* Pad indices, src/main.c:20-31 *)
BUMBO_PAD == 0
SURDO_PAD == 1
TOM1_PAD == 2
TOM2_PAD == 3
CHIMBAL_PAD == 4
CAIXA_PAD == 5
ARO_CAIXA_PAD == 6
CONDUCAO_BORDA_PAD == 7
CONDUCAO_CUPULA_PAD == 8
ATAQUE_BORDA_PAD == 9
ATAQUE_CUPULA_PAD == 10
NUM_PADS == 11

Chan == 0 .. (NUM_PADS - 1)
\* loop bounds of the two for-loops: j = 0..CHIMBAL_PAD, and j = CAIXA_PAD, +2, < NUM_PADS
SimplePads == BUMBO_PAD .. CHIMBAL_PAD
DualPads == {j \in CAIXA_PAD .. (NUM_PADS - 1) : (j - CAIXA_PAD) % 2 = 0}
Ctrl == SimplePads \cup DualPads

(* MIDI notes, src/main.c:66-87 *)
MIDI_NOTE_CHIMBAL_CLOSED == 42
MIDI_NOTE_CHIMBAL_OPEN == 46
MIDI_NOTE_CHIMBAL_PEDAL == 44
MIDI_NOTE_RIMSHOT == 40
midiNote == <<36, 41, 43, 45, MIDI_NOTE_CHIMBAL_CLOSED, 38, 39, 50, 53, 49, 51>>

(* Tuning, src/main.c:100-134.  Sequences are 1-based: X[j + 1] is the C X[j]. *)
threshold == <<120, 45, 230, 150, 80, 55, 40, 35, 35, 35, 35>>
retriggerThreshold == <<900, 950, 950, 950, 900, 550, 100, 950, 950, 680, 680>>
minVelocity == 10
maxVelocity == 127
\* gainFactor in tenths: 1, 1, 1, 1, 1, 1, 1, 1, 7, 1, 1.2
gainFactor10 == <<10, 10, 10, 10, 10, 10, 10, 10, 70, 10, 12>>
PEAK_DETECTION_WINDOW_MS == 7
\* RETRIGGER_MIN_MULTIPLIER = 1.5 as the fraction 3/2
RETRIGGER_MIN_MULTIPLIER_NUM == 3
RETRIGGER_MIN_MULTIPLIER_DEN == 2

(* enum PadState, src/main.c:145-151 *)
PAD_STATE_IDLE == "IDLE"
PAD_STATE_PEAK_DETECTION == "PEAK_DETECTION"
PAD_STATE_SILENT_DEBOUNCE == "SILENT_DEBOUNCE"
PAD_STATE_REPIQUE_CHECK == "REPIQUE_CHECK"
PAD_STATE_CHOKE_CONFIRMATION == "CHOKE_CONFIRMATION"
PadState == {PAD_STATE_IDLE, PAD_STATE_PEAK_DETECTION, PAD_STATE_SILENT_DEBOUNCE,
             PAD_STATE_REPIQUE_CHECK, PAD_STATE_CHOKE_CONFIRMATION}

SILENT_DEBOUNCE_MS == 30
REPIQUE_CHECK_MS == 180
CHOKE_CONFIRMATION_TIME_MS == 20
HIGH_VELOCITY_THRESHOLD == 115
LOW_VELOCITY_DISCARD_THRESHOLD == 29
CROSSTALK_WINDOW_MS == 130

\* digital levels of the pedal pin
LOW == 0
HIGH == 1
\* largest analogRead value (10 bit), the in_max of the velocity map
ADC_MAX == 1023
\* millis() is an unsigned long, 32 bit on the target.  The model checker's
\* integers are 32-bit signed, so the counter is modelled narrower; unsigned
\* subtraction behaves alike for every width longer than the longest window.
ClockBits == 16
ClockMod == 2 ^ ClockBits

---------------------------------------------------------------------------
(* C arithmetic *)

Thr(j) == threshold[j + 1]
Note(j) == midiNote[j + 1]

\* unsigned long subtraction a - b
USubNoWrap(a, b) == a - b

\* unsigned subtraction of two clock values, as in currentMillis - stateChangeTime[j]
USub(a, b) == (a - b) % ClockMod

\* C integer division, truncating toward zero (b > 0)
CDiv(a, b) == IF a >= 0 THEN a \div b ELSE -((-a) \div b)

Max2(a, b) == IF a > b THEN a ELSE b
Min2(a, b) == IF a < b THEN a ELSE b

\* Arduino map(): (x - in_min) * (out_max - out_min) / (in_max - in_min) + out_min
map(x, in_min, in_max, out_min, out_max) ==
    CDiv((x - in_min) * (out_max - out_min), in_max - in_min) + out_min

\* Arduino constrain()
constrain(x, lo, hi) == IF x < lo THEN lo ELSE IF x > hi THEN hi ELSE x

\* round(peak * gainFactor[j]) for peak >= 0: (long)(peak * g + 0.5)
sensorValueAdjusted(j, peak) == (2 * peak * gainFactor10[j + 1] + 10) \div 20

\* (int)(threshold[j] * RETRIGGER_MIN_MULTIPLIER): the cast truncates
RetriggerFloor(j) ==
    (Thr(j) * RETRIGGER_MIN_MULTIPLIER_NUM) \div RETRIGGER_MIN_MULTIPLIER_DEN

\* variant: map() without the constrain() around it
VelocityUnclamped(j, peak) ==
    map(sensorValueAdjusted(j, peak), Thr(j), ADC_MAX, minVelocity, maxVelocity)

\* variant: input range starting at 0 instead of the pad's threshold
VelocityFromZero(j, peak) ==
    constrain(map(sensorValueAdjusted(j, peak), 0, ADC_MAX, minVelocity, maxVelocity),
              minVelocity, maxVelocity)

\* variant: input range ending at 1024 instead of 1023
VelocityTo1024(j, peak) ==
    constrain(map(sensorValueAdjusted(j, peak), Thr(j), ADC_MAX + 1, minVelocity, maxVelocity),
              minVelocity, maxVelocity)

\* constrain(map(round(peak * gain), threshold, 1023, minVelocity, maxVelocity), ...)
Velocity(j, peak) ==
    constrain(map(sensorValueAdjusted(j, peak), Thr(j), ADC_MAX, minVelocity, maxVelocity),
              minVelocity, maxVelocity)

\* variant: the seed not capped by retriggerThreshold[j]
RetriggerInitialNoCeiling(j, peak) ==
    Max2(RetriggerFloor(j), (peak * RETRIGGER_MIN_MULTIPLIER_NUM) \div RETRIGGER_MIN_MULTIPLIER_DEN)

\* max((int)(threshold*1.5), min(retriggerThreshold, peak * 1.5)) stored in an int
RetriggerInitial(j, peak) ==
    Max2(RetriggerFloor(j),
         Min2(retriggerThreshold[j + 1],
              (peak * RETRIGGER_MIN_MULTIPLIER_NUM) \div RETRIGGER_MIN_MULTIPLIER_DEN))

\* variant: the quotient of the interpolation rounded down instead of towards zero
DecayedThresholdRoundedDown(j, elapsedTime, initial) ==
    ((elapsedTime * (Thr(j) - initial)) \div REPIQUE_CHECK_MS) + initial

\* variant: the level interpolated from the threshold up to the seed
DecayedThresholdReversed(j, elapsedTime, initial) ==
    map(elapsedTime, 0, REPIQUE_CHECK_MS, Thr(j), initial)

\* map(elapsedTime, 0, REPIQUE_CHECK_MS, retriggerThresholdInitialDecay[j], threshold[j])
DecayedThreshold(j, elapsedTime, initial) ==
    map(elapsedTime, 0, REPIQUE_CHECK_MS, initial, Thr(j))

\* variant: the decayed level alone, without the max() against the floor
currentRetriggerThresholdNoFloor(j, elapsedTime, initial) ==
    DecayedThreshold(j, elapsedTime, initial)

\* max((long)(threshold[j] * 1.5), map(...)): the level a reading must exceed
currentRetriggerThreshold(j, elapsedTime, initial) ==
    Max2(RetriggerFloor(j), DecayedThreshold(j, elapsedTime, initial))

---------------------------------------------------------------------------
(* Program state.  Arrays are functions over Chan (the C arrays have         *)
(* NUM_PADS entries; the dual-zone loop uses the primary's entry for the     *)
(* state and both entries for the peaks).                                    *)
VARIABLES
    padState,                        \* PadState padState[NUM_PADS]
    stateChangeTime,                 \* unsigned long stateChangeTime[NUM_PADS]
    peakSensorValues,                \* int peakSensorValues[NUM_PADS]
    retriggerThresholdInitialDecay,  \* int retriggerThresholdInitialDecay[NUM_PADS]
    lastHighVelocityMidiTime,        \* unsigned long
    pedalChimbalState,               \* level read in the current pass
    lastPedalChimbalState,           \* level of the last change
    playing,                         \* the eight ...Playing flags, by name
    now,                             \* last value returned by millis()
    reading,                         \* last analogRead() per channel
    out,                             \* MIDI events written to Serial in the last pass
    obs,                             \* per pad: the branch its state machine took in the last pass
    nOn,                             \* per pad: note-ons it wrote since it last left IDLE
    nOff,                            \* per pad: note-offs it wrote since it last left IDLE
    env                              \* what the player does: pads struck, script position

vars == <<padState, stateChangeTime, peakSensorValues, retriggerThresholdInitialDecay,
          lastHighVelocityMidiTime, pedalChimbalState, lastPedalChimbalState, playing,
          now, reading, out, obs, nOn, nOff, env>>

\* The bool flags of src/main.c:198-207
FlagNames == {"chimbalOpenSoundPlaying", "chimbalClosedSoundPlaying",
              "conducaoBordaPlaying", "conducaoCupulaPlaying",
              "ataqueBordaPlaying", "ataqueCupulaPlaying",
              "caixaPlaying", "aroCaixaPlaying"}

\* The flag a note drives in the if/else-if chains of midiNoteOn and midiNoteOff
\* ("" when the chain falls through)
FlagOf(note) ==
    IF note = Note(CONDUCAO_BORDA_PAD) THEN "conducaoBordaPlaying"
    ELSE IF note = Note(CONDUCAO_CUPULA_PAD) THEN "conducaoCupulaPlaying"
    ELSE IF note = Note(ATAQUE_BORDA_PAD) THEN "ataqueBordaPlaying"
    ELSE IF note = Note(ATAQUE_CUPULA_PAD) THEN "ataqueCupulaPlaying"
    ELSE IF note = Note(CAIXA_PAD) THEN "caixaPlaying"
    ELSE IF note = Note(ARO_CAIXA_PAD) THEN "aroCaixaPlaying"
    ELSE IF note = MIDI_NOTE_CHIMBAL_CLOSED THEN "chimbalClosedSoundPlaying"
    ELSE IF note = MIDI_NOTE_CHIMBAL_OPEN THEN "chimbalOpenSoundPlaying"
    ELSE ""

\* No branch taken yet / pad not processed
NoObs == [from |-> PAD_STATE_IDLE, branch |-> "none", vP |-> 0, vS |-> 0, level |-> 0, at |-> 0]

\* The record the step operators work on: the globals of the program plus the
\* output written so far in this pass; `who' is the loop position writing
\* (-1: the pedal block), kept with each event.
Globals ==
    [padState |-> padState, stateChangeTime |-> stateChangeTime,
     peakSensorValues |-> peakSensorValues,
     retriggerThresholdInitialDecay |-> retriggerThresholdInitialDecay,
     lastHighVelocityMidiTime |-> lastHighVelocityMidiTime,
     pedalChimbalState |-> pedalChimbalState,
     lastPedalChimbalState |-> lastPedalChimbalState,
     playing |-> playing, out |-> <<>>, obs |-> [j \in Ctrl |-> NoObs], who |-> -1]

---------------------------------------------------------------------------
(* Event emitter, src/main.c:647-685 *)

\* (byte) cast of an int argument
Byte(x) == x % 256

midiNoteOn(s, note, velocity) ==
    [s EXCEPT !.out = Append(@, [type |-> "on", note |-> Byte(note),
                                 velocity |-> Byte(velocity), who |-> s.who]),
              !.playing = IF FlagOf(note) = "" THEN @
                          ELSE [@ EXCEPT ![FlagOf(note)] = TRUE]]

\* variant: the note-off is written but the flag is left as it was
midiNoteOffKeepsFlag(s, note, velocity) ==
    [s EXCEPT !.out = Append(@, [type |-> "off", note |-> Byte(note),
                                 velocity |-> Byte(velocity), who |-> s.who])]

midiNoteOff(s, note, velocity) ==
    [s EXCEPT !.out = Append(@, [type |-> "off", note |-> Byte(note),
                                 velocity |-> Byte(velocity), who |-> s.who]),
              !.playing = IF FlagOf(note) = "" THEN @
                          ELSE [@ EXCEPT ![FlagOf(note)] = FALSE]]

---------------------------------------------------------------------------
(* Pedal block, src/main.c:239-253 *)

\* variant: the note-offs sent without testing the playing flags
PedalBlockNoFlagTest(s0, currentPedalReading) ==
    LET s == [s0 EXCEPT !.who = -1]
        changed == [s EXCEPT !.lastPedalChimbalState = currentPedalReading]
        pressed == midiNoteOn(midiNoteOff(changed, MIDI_NOTE_CHIMBAL_OPEN, 0),
                              MIDI_NOTE_CHIMBAL_PEDAL, 30)
        released == midiNoteOff(changed, MIDI_NOTE_CHIMBAL_CLOSED, 0)
        s1 == IF currentPedalReading # s.lastPedalChimbalState
                 THEN (IF currentPedalReading = LOW THEN pressed ELSE released)
                 ELSE s
    IN [s1 EXCEPT !.pedalChimbalState = currentPedalReading]

\* variant: the pressed pedal leaves the open voice sounding
PedalBlockKeepsOpen(s0, currentPedalReading) ==
    LET s == [s0 EXCEPT !.who = -1]
        changed == [s EXCEPT !.lastPedalChimbalState = currentPedalReading]
        pressed == midiNoteOn(changed, MIDI_NOTE_CHIMBAL_PEDAL, 30)
        released == IF changed.playing["chimbalClosedSoundPlaying"]
                       THEN midiNoteOff(changed, MIDI_NOTE_CHIMBAL_CLOSED, 0)
                       ELSE changed
        s1 == IF currentPedalReading # s.lastPedalChimbalState
                 THEN (IF currentPedalReading = LOW THEN pressed ELSE released)
                 ELSE s
    IN [s1 EXCEPT !.pedalChimbalState = currentPedalReading]

\* the pedal block of a pass
PedalBlock(s0, currentPedalReading) ==
    LET s == [s0 EXCEPT !.who = -1]
        changed == [s EXCEPT !.lastPedalChimbalState = currentPedalReading]
        pressed == midiNoteOn(IF changed.playing["chimbalOpenSoundPlaying"]
                                 THEN midiNoteOff(changed, MIDI_NOTE_CHIMBAL_OPEN, 0)
                                 ELSE changed,
                              MIDI_NOTE_CHIMBAL_PEDAL, 30)
        released == IF changed.playing["chimbalClosedSoundPlaying"]
                       THEN midiNoteOff(changed, MIDI_NOTE_CHIMBAL_CLOSED, 0)
                       ELSE changed
        s1 == IF currentPedalReading # s.lastPedalChimbalState
                 THEN (IF currentPedalReading = LOW THEN pressed ELSE released)
                 ELSE s
    IN [s1 EXCEPT !.pedalChimbalState = currentPedalReading]

---------------------------------------------------------------------------
(* Conditions of the pad state machines *)

\* IDLE onset of a simple pad, src/main.c:272
\* variant: inclusive comparison
OnsetInclusive(j, currentSensorReading) == currentSensorReading >= Thr(j)

Onset(j, currentSensorReading) == currentSensorReading > Thr(j)

\* variant: inclusive comparisons
OnsetDualInclusive(j, principal, secundario) ==
    principal >= Thr(j) \/ secundario >= Thr(j + 1)

\* variant: both readings compared with the secondary's threshold
OnsetDualOneThreshold(j, principal, secundario) ==
    principal > Thr(j + 1) \/ secundario > Thr(j + 1)

\* IDLE onset of a dual-zone pad, src/main.c:426
OnsetDual(j, principal, secundario) ==
    principal > Thr(j) \/ secundario > Thr(j + 1)

\* variant: the window still open at exactly PEAK_DETECTION_WINDOW_MS
InPeakWindowInclusive(currentMillis, since) ==
    USub(currentMillis, since) <= PEAK_DETECTION_WINDOW_MS

\* variant: a window two milliseconds shorter
InPeakWindowShort(currentMillis, since) ==
    USub(currentMillis, since) < PEAK_DETECTION_WINDOW_MS - 2

\* still inside the peak window, src/main.c:291 and 447
InPeakWindow(currentMillis, since) ==
    USub(currentMillis, since) < PEAK_DETECTION_WINDOW_MS

\* variant: the window test reversed
IsCrosstalkOutsideWindow(velocity, currentMillis, lastHigh) ==
    /\ velocity < LOW_VELOCITY_DISCARD_THRESHOLD
    /\ USub(currentMillis, lastHigh) > CROSSTALK_WINDOW_MS

\* variant: the velocity compared with minVelocity instead of the discard threshold
IsCrosstalkBelowMin(velocity, currentMillis, lastHigh) ==
    /\ velocity < minVelocity
    /\ USub(currentMillis, lastHigh) < CROSSTALK_WINDOW_MS

\* variant: the window measured from the current pass, as if
\* lastHighVelocityMidiTime had been set before the test
IsCrosstalkSelfGated(velocity, currentMillis, lastHigh) ==
    /\ velocity < LOW_VELOCITY_DISCARD_THRESHOLD
    /\ USub(currentMillis, currentMillis) < CROSSTALK_WINDOW_MS

\* weak hit inside the crosstalk window, src/main.c:308 and 464
IsCrosstalk(velocity, currentMillis, lastHigh) ==
    /\ velocity < LOW_VELOCITY_DISCARD_THRESHOLD
    /\ USub(currentMillis, lastHigh) < CROSSTALK_WINDOW_MS

\* variant: without the test of the note
IsHighVelocityAnyPad(j, velocity) == velocity > HIGH_VELOCITY_THRESHOLD

\* variant: inclusive comparison
IsHighVelocityInclusive(j, velocity) ==
    velocity >= HIGH_VELOCITY_THRESHOLD /\ Note(j) > 36

\* strong hit of a pad other than the kick, src/main.c:333 and 522
IsHighVelocity(j, velocity) ==
    velocity > HIGH_VELOCITY_THRESHOLD /\ Note(j) > 36

\* src/main.c:482: peak[CAIXA] > 600 && peak[ARO] > 2 * threshold[ARO]
IsRimshot(pp, ps) == pp > 600 /\ ps > 2 * Thr(ARO_CAIXA_PAD)

\* variant: the comparison of the two peaks reversed
IsRimDominantReversed(pp, ps) == pp < 1000 /\ 11 * ps < 10 * pp

\* src/main.c:486: peak[j] < 1000 && peak[j+1] * 1.1 > peak[j]
IsRimDominant(pp, ps) == pp < 1000 /\ 11 * ps > 10 * pp

\* src/main.c:503: peak[j] < 1000 && peak[j+1] > peak[j]
IsBell(pp, ps) == pp < 1000 /\ ps > pp

\* variant: factor 0.005 instead of 0.05
IsPotentialChokeFactor(pp, ps) == 200 * ps < pp

\* src/main.c:506: peak[j+1] < peak[j] * 0.05
IsPotentialChoke(pp, ps) == 20 * ps < pp

\* src/main.c:605: peak[j+1] < peak[j] * 0.05 || peak[j+1] < 20
IsChokeConfirmed(pp, ps) == 20 * ps < pp \/ ps < 20

SetObs(s, j, from, branch, vP, vS, level, at) ==
    [s EXCEPT !.obs[j] = [from |-> from, branch |-> branch, vP |-> vP, vS |-> vS,
                          level |-> level, at |-> at]]

---------------------------------------------------------------------------
(* Simple pads, one iteration of the first for-loop, src/main.c:261-399 *)

\* variant: the onset also stores the reading in the next channel's peak, as
\* the second loop does for its secondary sensor
SimpleIdleWritesNext(s, j, currentSensorReading, currentMillis) ==
    IF Onset(j, currentSensorReading)
    THEN SetObs([s EXCEPT !.peakSensorValues[j] = currentSensorReading,
                          !.peakSensorValues[j + 1] = currentSensorReading,
                          !.padState[j] = PAD_STATE_PEAK_DETECTION,
                          !.stateChangeTime[j] = currentMillis],
                j, PAD_STATE_IDLE, "onset", 0, 0, 0, currentMillis)
    ELSE SetObs(s, j, PAD_STATE_IDLE, "idle", 0, 0, 0, currentMillis)

\* case PAD_STATE_IDLE, src/main.c:266-279
SimpleIdle(s, j, currentSensorReading, currentMillis) ==
    IF Onset(j, currentSensorReading)
    THEN SetObs([s EXCEPT !.peakSensorValues[j] = currentSensorReading,
                          !.padState[j] = PAD_STATE_PEAK_DETECTION,
                          !.stateChangeTime[j] = currentMillis],
                j, PAD_STATE_IDLE, "onset", 0, 0, 0, currentMillis)
    ELSE SetObs(s, j, PAD_STATE_IDLE, "idle", 0, 0, 0, currentMillis)

\* variant: the pedal test reversed
SimpleEmitPedalReversed(s, j, velocity) ==
    IF j = CHIMBAL_PAD
    THEN IF s.pedalChimbalState = HIGH
         THEN LET a == midiNoteOn(s, MIDI_NOTE_CHIMBAL_CLOSED, velocity)
              IN IF a.playing["chimbalOpenSoundPlaying"]
                 THEN midiNoteOff(a, MIDI_NOTE_CHIMBAL_OPEN, 0) ELSE a
         ELSE LET a == midiNoteOn(s, MIDI_NOTE_CHIMBAL_OPEN, velocity)
              IN IF a.playing["chimbalClosedSoundPlaying"]
                 THEN midiNoteOff(a, MIDI_NOTE_CHIMBAL_CLOSED, 0) ELSE a
    ELSE midiNoteOn(s, Note(j), velocity)

\* the note a simple pad sends, src/main.c:317-327
SimpleEmit(s, j, velocity) ==
    IF j = CHIMBAL_PAD
    THEN IF s.pedalChimbalState = LOW
         THEN LET a == midiNoteOn(s, MIDI_NOTE_CHIMBAL_CLOSED, velocity)
              IN IF a.playing["chimbalOpenSoundPlaying"]
                 THEN midiNoteOff(a, MIDI_NOTE_CHIMBAL_OPEN, 0) ELSE a
         ELSE LET a == midiNoteOn(s, MIDI_NOTE_CHIMBAL_OPEN, velocity)
              IN IF a.playing["chimbalClosedSoundPlaying"]
                 THEN midiNoteOff(a, MIDI_NOTE_CHIMBAL_CLOSED, 0) ELSE a
    ELSE midiNoteOn(s, Note(j), velocity)

\* case PAD_STATE_PEAK_DETECTION, src/main.c:281-349
SimplePeak(s, j, currentSensorReading, currentMillis) ==
    LET from == PAD_STATE_PEAK_DETECTION
        peak == s.peakSensorValues[j]
        velocity == Velocity(j, peak)
    IN
    IF InPeakWindow(currentMillis, s.stateChangeTime[j])
    THEN SetObs(IF currentSensorReading > peak
                   THEN [s EXCEPT !.peakSensorValues[j] = currentSensorReading]
                   ELSE s,
                j, from, "window", 0, 0, 0, currentMillis)
    ELSE IF peak > Thr(j)
    THEN IF IsCrosstalk(velocity, currentMillis, s.lastHighVelocityMidiTime)
         THEN SetObs([s EXCEPT !.padState[j] = PAD_STATE_IDLE],
                     j, from, "discard", velocity, 0, 0, currentMillis)
         ELSE LET a == SimpleEmit(s, j, velocity)
                  b == IF IsHighVelocity(j, velocity)
                          THEN [a EXCEPT !.lastHighVelocityMidiTime = currentMillis]
                          ELSE a
                  c == [b EXCEPT !.padState[j] = PAD_STATE_SILENT_DEBOUNCE,
                                 !.stateChangeTime[j] = currentMillis,
                                 !.retriggerThresholdInitialDecay[j] =
                                     RetriggerInitial(j, peak)]
              IN SetObs(c, j, from, "fire", velocity, 0, 0, currentMillis)
    ELSE SetObs([s EXCEPT !.padState[j] = PAD_STATE_IDLE],
                j, from, "below", 0, 0, 0, currentMillis)

\* variant: the timeout stores a value one past the last enumerator
SilentDebounceOutOfEnum(s, j, currentMillis) ==
    IF USub(currentMillis, s.stateChangeTime[j]) >= SILENT_DEBOUNCE_MS
    THEN SetObs([s EXCEPT !.padState[j] = "PAD_STATE_5",
                          !.stateChangeTime[j] = currentMillis],
                j, PAD_STATE_SILENT_DEBOUNCE, "to_repique", 0, 0, 0, currentMillis)
    ELSE SetObs(s, j, PAD_STATE_SILENT_DEBOUNCE, "silent", 0, 0, 0, currentMillis)

\* variant: the transition keeps the old stateChangeTime
SilentDebounceKeepsEntry(s, j, currentMillis) ==
    IF USub(currentMillis, s.stateChangeTime[j]) >= SILENT_DEBOUNCE_MS
    THEN SetObs([s EXCEPT !.padState[j] = PAD_STATE_REPIQUE_CHECK],
                j, PAD_STATE_SILENT_DEBOUNCE, "to_repique", 0, 0, 0, currentMillis)
    ELSE SetObs(s, j, PAD_STATE_SILENT_DEBOUNCE, "silent", 0, 0, 0, currentMillis)

\* variant: the debounce ends only after more than SILENT_DEBOUNCE_MS
SilentDebounceStrict(s, j, currentMillis) ==
    IF USub(currentMillis, s.stateChangeTime[j]) > SILENT_DEBOUNCE_MS
    THEN SetObs([s EXCEPT !.padState[j] = PAD_STATE_REPIQUE_CHECK,
                          !.stateChangeTime[j] = currentMillis],
                j, PAD_STATE_SILENT_DEBOUNCE, "to_repique", 0, 0, 0, currentMillis)
    ELSE SetObs(s, j, PAD_STATE_SILENT_DEBOUNCE, "silent", 0, 0, 0, currentMillis)

\* variant: the silent debounce never ends
SilentDebounceStays(s, j, currentMillis) ==
    SetObs(s, j, PAD_STATE_SILENT_DEBOUNCE, "silent", 0, 0, 0, currentMillis)

\* case PAD_STATE_SILENT_DEBOUNCE, src/main.c:351-364 (and 541-554, the same code)
SilentDebounce(s, j, currentMillis) ==
    IF USub(currentMillis, s.stateChangeTime[j]) >= SILENT_DEBOUNCE_MS
    THEN SetObs([s EXCEPT !.padState[j] = PAD_STATE_REPIQUE_CHECK,
                          !.stateChangeTime[j] = currentMillis],
                j, PAD_STATE_SILENT_DEBOUNCE, "to_repique", 0, 0, 0, currentMillis)
    ELSE SetObs(s, j, PAD_STATE_SILENT_DEBOUNCE, "silent", 0, 0, 0, currentMillis)

\* case PAD_STATE_REPIQUE_CHECK, src/main.c:366-392
SimpleRepique(s, j, currentSensorReading, currentMillis) ==
    LET from == PAD_STATE_REPIQUE_CHECK
        elapsedTime == USub(currentMillis, s.stateChangeTime[j])
        level == currentRetriggerThreshold(j, elapsedTime,
                                           s.retriggerThresholdInitialDecay[j])
    IN
    IF elapsedTime >= REPIQUE_CHECK_MS
    THEN SetObs([s EXCEPT !.padState[j] = PAD_STATE_IDLE],
                j, from, "repique_end", 0, 0, 0, currentMillis)
    ELSE IF currentSensorReading > level
    THEN SetObs([s EXCEPT !.peakSensorValues[j] = currentSensorReading,
                          !.padState[j] = PAD_STATE_PEAK_DETECTION,
                          !.stateChangeTime[j] = currentMillis],
                j, from, "retrigger", 0, 0, level, currentMillis)
    ELSE SetObs(s, j, from, "repique_wait", 0, 0, level, currentMillis)

\* case PAD_STATE_CHOKE_CONFIRMATION of a simple pad, src/main.c:394-397
SimpleChoke(s, j, currentMillis) ==
    SetObs([s EXCEPT !.padState[j] = PAD_STATE_IDLE],
           j, PAD_STATE_CHOKE_CONFIRMATION, "choke_invalid", 0, 0, 0, currentMillis)

\* the switch of the first loop, src/main.c:265-398
SimplePad(s0, j, currentSensorReading, currentMillis) ==
    LET s == [s0 EXCEPT !.who = j]
        st == s.padState[j]
    IN CASE st = PAD_STATE_IDLE -> SimpleIdle(s, j, currentSensorReading, currentMillis)
         [] st = PAD_STATE_PEAK_DETECTION ->
                SimplePeak(s, j, currentSensorReading, currentMillis)
         [] st = PAD_STATE_SILENT_DEBOUNCE -> SilentDebounce(s, j, currentMillis)
         [] st = PAD_STATE_REPIQUE_CHECK ->
                SimpleRepique(s, j, currentSensorReading, currentMillis)
         [] st = PAD_STATE_CHOKE_CONFIRMATION -> SimpleChoke(s, j, currentMillis)
         \* a switch over a value outside the enum runs no case
         [] OTHER -> SetObs(s, j, st, "no_case", 0, 0, 0, currentMillis)

---------------------------------------------------------------------------
(* Dual-zone pads, one iteration of the second for-loop, src/main.c:413-637 *)

\* variant: the onset stores the principal reading only
DualIdleKeepsSecondary(s, j, principal, secundario, currentMillis) ==
    IF OnsetDual(j, principal, secundario)
    THEN SetObs([s EXCEPT !.peakSensorValues[j] = principal,
                          !.padState[j] = PAD_STATE_PEAK_DETECTION,
                          !.stateChangeTime[j] = currentMillis],
                j, PAD_STATE_IDLE, "onset", 0, 0, 0, currentMillis)
    ELSE SetObs(s, j, PAD_STATE_IDLE, "idle", 0, 0, 0, currentMillis)

\* case PAD_STATE_IDLE, src/main.c:419-434
DualIdle(s, j, principal, secundario, currentMillis) ==
    IF OnsetDual(j, principal, secundario)
    THEN SetObs([s EXCEPT !.peakSensorValues[j] = principal,
                          !.peakSensorValues[j + 1] = secundario,
                          !.padState[j] = PAD_STATE_PEAK_DETECTION,
                          !.stateChangeTime[j] = currentMillis],
                j, PAD_STATE_IDLE, "onset", 0, 0, 0, currentMillis)
    ELSE SetObs(s, j, PAD_STATE_IDLE, "idle", 0, 0, 0, currentMillis)

\* variant: the dominant rim tested before the rimshot
SnareZoneRimFirst(pp, ps) ==
    IF IsRimDominant(pp, ps) THEN "rim"
    ELSE IF IsRimshot(pp, ps) THEN "rimshot"
    ELSE "head"

\* the zone a snare hit is classified as, src/main.c:482-492
SnareZone(pp, ps) ==
    IF IsRimshot(pp, ps) THEN "rimshot"
    ELSE IF IsRimDominant(pp, ps) THEN "rim"
    ELSE "head"

\* the zone a ride/crash hit is classified as, src/main.c:503-515
CymbalZone(pp, ps) ==
    IF IsBell(pp, ps) THEN "bell"
    ELSE IF IsPotentialChoke(pp, ps) THEN "choke"
    ELSE "bow"

\* variant: the potential choke switches the bell off before the bow
DualEmitBellOffFirst(s, j, velocityPrincipal, velocitySecundario, currentMillis) ==
    LET pp == s.peakSensorValues[j]
        ps == s.peakSensorValues[j + 1]
    IN
    IF j = CAIXA_PAD
    THEN CASE SnareZone(pp, ps) = "rimshot" ->
                midiNoteOn(s, MIDI_NOTE_RIMSHOT, Max2(velocityPrincipal, velocitySecundario))
           [] SnareZone(pp, ps) = "rim" -> midiNoteOn(s, Note(j + 1), velocitySecundario)
           [] OTHER -> midiNoteOn(s, Note(j), velocityPrincipal)
    ELSE CASE CymbalZone(pp, ps) = "bell" -> midiNoteOn(s, Note(j + 1), velocitySecundario)
           [] CymbalZone(pp, ps) = "choke" ->
                [midiNoteOff(midiNoteOff(s, Note(j + 1), 0), Note(j), 0)
                    EXCEPT !.stateChangeTime[j] = currentMillis]
           [] OTHER -> midiNoteOn(s, Note(j), velocityPrincipal)

\* variant: the potential choke also assigns PAD_STATE_CHOKE_CONFIRMATION, the
\* statement that line 507 holds as a comment
DualEmitEntersConfirmation(s, j, velocityPrincipal, velocitySecundario, currentMillis) ==
    LET pp == s.peakSensorValues[j]
        ps == s.peakSensorValues[j + 1]
    IN
    IF j = CAIXA_PAD
    THEN CASE SnareZone(pp, ps) = "rimshot" ->
                midiNoteOn(s, MIDI_NOTE_RIMSHOT, Max2(velocityPrincipal, velocitySecundario))
           [] SnareZone(pp, ps) = "rim" -> midiNoteOn(s, Note(j + 1), velocitySecundario)
           [] OTHER -> midiNoteOn(s, Note(j), velocityPrincipal)
    ELSE CASE CymbalZone(pp, ps) = "bell" -> midiNoteOn(s, Note(j + 1), velocitySecundario)
           [] CymbalZone(pp, ps) = "choke" ->
                [midiNoteOff(midiNoteOff(s, Note(j), 0), Note(j + 1), 0)
                    EXCEPT !.padState[j] = PAD_STATE_CHOKE_CONFIRMATION,
                           !.stateChangeTime[j] = currentMillis]
           [] OTHER -> midiNoteOn(s, Note(j), velocityPrincipal)

\* what a dual-zone pad sends, src/main.c:473-516.  The potential-choke branch
\* writes the two note-offs and stateChangeTime; its assignment of
\* PAD_STATE_CHOKE_CONFIRMATION is commented out in the source (line 507).
DualEmit(s, j, velocityPrincipal, velocitySecundario, currentMillis) ==
    LET pp == s.peakSensorValues[j]
        ps == s.peakSensorValues[j + 1]
    IN
    IF j = CAIXA_PAD
    THEN CASE SnareZone(pp, ps) = "rimshot" ->
                midiNoteOn(s, MIDI_NOTE_RIMSHOT, Max2(velocityPrincipal, velocitySecundario))
           [] SnareZone(pp, ps) = "rim" -> midiNoteOn(s, Note(j + 1), velocitySecundario)
           [] OTHER -> midiNoteOn(s, Note(j), velocityPrincipal)
    ELSE CASE CymbalZone(pp, ps) = "bell" -> midiNoteOn(s, Note(j + 1), velocitySecundario)
           [] CymbalZone(pp, ps) = "choke" ->
                [midiNoteOff(midiNoteOff(s, Note(j), 0), Note(j + 1), 0)
                    EXCEPT !.stateChangeTime[j] = currentMillis]
           [] OTHER -> midiNoteOn(s, Note(j), velocityPrincipal)

\* the label of the branch DualEmit takes
DualZone(j, pp, ps) == IF j = CAIXA_PAD THEN SnareZone(pp, ps) ELSE CymbalZone(pp, ps)

\* case PAD_STATE_PEAK_DETECTION, src/main.c:436-539
DualPeak(s, j, principal, secundario, currentMillis) ==
    LET from == PAD_STATE_PEAK_DETECTION
        pp == s.peakSensorValues[j]
        ps == s.peakSensorValues[j + 1]
        velocityPrincipal == Velocity(j, pp)
        velocitySecundario == Velocity(j + 1, ps)
        vmax == Max2(velocitySecundario, velocityPrincipal)
    IN
    IF InPeakWindow(currentMillis, s.stateChangeTime[j])
    THEN SetObs([s EXCEPT !.peakSensorValues[j] = IF principal > @ THEN principal ELSE @,
                          !.peakSensorValues[j + 1] = IF secundario > @ THEN secundario ELSE @],
                j, from, "window", 0, 0, 0, currentMillis)
    ELSE IF pp <= Thr(j) /\ ps <= Thr(j + 1)
    THEN SetObs([s EXCEPT !.padState[j] = PAD_STATE_IDLE],
                j, from, "below", 0, 0, 0, currentMillis)
    ELSE IF IsCrosstalk(vmax, currentMillis, s.lastHighVelocityMidiTime)
    THEN SetObs([s EXCEPT !.padState[j] = PAD_STATE_IDLE],
                j, from, "discard", velocityPrincipal, velocitySecundario, 0, currentMillis)
    ELSE LET a == DualEmit(s, j, velocityPrincipal, velocitySecundario, currentMillis)
             b == IF IsHighVelocity(j, vmax)
                     THEN [a EXCEPT !.lastHighVelocityMidiTime = currentMillis]
                     ELSE a
             c == IF b.padState[j] # PAD_STATE_CHOKE_CONFIRMATION
                     THEN [b EXCEPT !.padState[j] = PAD_STATE_SILENT_DEBOUNCE,
                                    !.stateChangeTime[j] = currentMillis]
                     ELSE b
             d == [c EXCEPT !.retriggerThresholdInitialDecay[j] =
                                RetriggerInitial(j, Max2(pp, ps)),
                            !.retriggerThresholdInitialDecay[j + 1] =
                                RetriggerInitial(j, Max2(pp, ps))]
         IN SetObs(d, j, from, DualZone(j, pp, ps),
                   velocityPrincipal, velocitySecundario, 0, currentMillis)

\* case PAD_STATE_REPIQUE_CHECK, src/main.c:556-581
DualRepique(s, j, principal, secundario, currentMillis) ==
    LET from == PAD_STATE_REPIQUE_CHECK
        elapsedTime == USub(currentMillis, s.stateChangeTime[j])
        level == currentRetriggerThreshold(j, elapsedTime,
                                           s.retriggerThresholdInitialDecay[j])
    IN
    IF elapsedTime >= REPIQUE_CHECK_MS
    THEN SetObs([s EXCEPT !.padState[j] = PAD_STATE_IDLE],
                j, from, "repique_end", 0, 0, 0, currentMillis)
    ELSE IF Max2(principal, secundario) > level
    THEN SetObs([s EXCEPT !.peakSensorValues[j] = principal,
                          !.peakSensorValues[j + 1] = secundario,
                          !.padState[j] = PAD_STATE_PEAK_DETECTION,
                          !.stateChangeTime[j] = currentMillis],
                j, from, "retrigger", 0, 0, level, currentMillis)
    ELSE SetObs(s, j, from, "repique_wait", 0, 0, level, currentMillis)

\* variant: the confirmation run for every pad of the second loop, without the
\* test of the pad's role
DualChokeAnyPad(s, j, reread, currentMillis) ==
    LET from == PAD_STATE_CHOKE_CONFIRMATION
        pp == IF reread[1] > s.peakSensorValues[j] THEN reread[2] ELSE s.peakSensorValues[j]
        ps == IF reread[3] > s.peakSensorValues[j + 1] THEN reread[4]
              ELSE s.peakSensorValues[j + 1]
        a == [s EXCEPT !.peakSensorValues[j] = pp, !.peakSensorValues[j + 1] = ps]
        zero(x) == [x EXCEPT !.peakSensorValues[j] = 0, !.peakSensorValues[j + 1] = 0]
    IN
    IF USub(currentMillis, s.stateChangeTime[j]) >= CHOKE_CONFIRMATION_TIME_MS
    THEN IF IsChokeConfirmed(pp, ps)
         THEN SetObs(zero([midiNoteOff(midiNoteOff(a, Note(j), 0), Note(j + 1), 0)
                              EXCEPT !.padState[j] = PAD_STATE_IDLE]),
                     j, from, "choke_ok", 0, 0, 0, currentMillis)
         ELSE IF pp > Thr(j) \/ ps > Thr(j + 1)
         THEN SetObs(zero([a EXCEPT !.padState[j] = PAD_STATE_PEAK_DETECTION,
                                    !.stateChangeTime[j] = currentMillis]),
                     j, from, "choke_strike", 0, 0, 0, currentMillis)
         ELSE SetObs(zero([a EXCEPT !.padState[j] = PAD_STATE_IDLE]),
                     j, from, "choke_idle", 0, 0, 0, currentMillis)
    ELSE SetObs(a, j, from, "choke_wait", 0, 0, 0, currentMillis)

\* case PAD_STATE_CHOKE_CONFIRMATION, src/main.c:583-635.  The handler samples each
\* sensor again, twice: once to compare (reread[1], reread[3]) and once to store
\* (reread[2], reread[4]).
DualChoke(s, j, reread, currentMillis) ==
    LET from == PAD_STATE_CHOKE_CONFIRMATION
        pp == IF reread[1] > s.peakSensorValues[j] THEN reread[2] ELSE s.peakSensorValues[j]
        ps == IF reread[3] > s.peakSensorValues[j + 1] THEN reread[4]
              ELSE s.peakSensorValues[j + 1]
        a == [s EXCEPT !.peakSensorValues[j] = pp, !.peakSensorValues[j + 1] = ps]
        zero(x) == [x EXCEPT !.peakSensorValues[j] = 0, !.peakSensorValues[j + 1] = 0]
    IN
    IF j = CONDUCAO_BORDA_PAD \/ j = ATAQUE_BORDA_PAD
    THEN IF USub(currentMillis, s.stateChangeTime[j]) >= CHOKE_CONFIRMATION_TIME_MS
         THEN IF IsChokeConfirmed(pp, ps)
              THEN SetObs(zero([midiNoteOff(midiNoteOff(a, Note(j), 0), Note(j + 1), 0)
                                   EXCEPT !.padState[j] = PAD_STATE_IDLE]),
                          j, from, "choke_ok", 0, 0, 0, currentMillis)
              ELSE IF pp > Thr(j) \/ ps > Thr(j + 1)
              THEN SetObs(zero([a EXCEPT !.padState[j] = PAD_STATE_PEAK_DETECTION,
                                         !.stateChangeTime[j] = currentMillis]),
                          j, from, "choke_strike", 0, 0, 0, currentMillis)
              ELSE SetObs(zero([a EXCEPT !.padState[j] = PAD_STATE_IDLE]),
                          j, from, "choke_idle", 0, 0, 0, currentMillis)
         ELSE SetObs(a, j, from, "choke_wait", 0, 0, 0, currentMillis)
    ELSE SetObs(zero([s EXCEPT !.padState[j] = PAD_STATE_IDLE]),
                j, from, "choke_invalid", 0, 0, 0, currentMillis)

\* the switch of the second loop, src/main.c:418-636
DualPad(s0, j, principal, secundario, reread, currentMillis) ==
    LET s == [s0 EXCEPT !.who = j]
        st == s.padState[j]
    IN CASE st = PAD_STATE_IDLE -> DualIdle(s, j, principal, secundario, currentMillis)
         [] st = PAD_STATE_PEAK_DETECTION ->
                DualPeak(s, j, principal, secundario, currentMillis)
         [] st = PAD_STATE_SILENT_DEBOUNCE -> SilentDebounce(s, j, currentMillis)
         [] st = PAD_STATE_REPIQUE_CHECK ->
                DualRepique(s, j, principal, secundario, currentMillis)
         [] st = PAD_STATE_CHOKE_CONFIRMATION -> DualChoke(s, j, reread, currentMillis)
         \* a switch over a value outside the enum runs no case
         [] OTHER -> SetObs(s, j, st, "no_case", 0, 0, 0, currentMillis)

---------------------------------------------------------------------------
(* loop(), src/main.c:235-639 *)

RECURSIVE SimpleLoop(_, _, _, _)
\* for (int j = 0; j <= CHIMBAL_PAD; j++), src/main.c:261-399
SimpleLoop(s, j, rd, currentMillis) ==
    IF j <= CHIMBAL_PAD
    THEN SimpleLoop(SimplePad(s, j, rd[j], currentMillis), j + 1, rd, currentMillis)
    ELSE s

RECURSIVE DualLoop(_, _, _, _)
\* for (int j = CAIXA_PAD; j < NUM_PADS; j = j + 2), src/main.c:413-637
DualLoop(s, j, rd, currentMillis) ==
    IF j < NUM_PADS
    THEN DualLoop(DualPad(s, j, rd[j], rd[j + 1],
                          <<rd[j], rd[j], rd[j + 1], rd[j + 1]>>, currentMillis),
                  j + 2, rd, currentMillis)
    ELSE s

\* variant: the dual-zone loop placed before the loop of the simple pads
LoopResultDualFirst(level, rd, t, t2) ==
    SimpleLoop(DualLoop(PedalBlock(Globals, level), CAIXA_PAD, rd, t2), BUMBO_PAD, rd, t)

\* One pass of loop(): pedal level `level', readings rd, and currentMillis read as
\* `t' by the simple pads and as `t2' by the dual-zone pads.
LoopResult(level, rd, t, t2) ==
    DualLoop(SimpleLoop(PedalBlock(Globals, level), BUMBO_PAD, rd, t), CAIXA_PAD, rd, t2)

\* number of events of `type' written by loop position j
Count(events, j, type) ==
    Cardinality({i \in 1 .. Len(events) : events[i].who = j /\ events[i].type = type})

\* The pass as an action, for inputs (level, rd, t, t2); e is the player's next
\* position and `counting' the pads whose events are being counted.
Pass(level, rd, t, t2, e, counting) ==
    \E r \in {LoopResult(level, rd, t, t2)} :
    /\ padState' = r.padState
    /\ stateChangeTime' = r.stateChangeTime
    /\ peakSensorValues' = r.peakSensorValues
    /\ retriggerThresholdInitialDecay' = r.retriggerThresholdInitialDecay
    /\ lastHighVelocityMidiTime' = r.lastHighVelocityMidiTime
    /\ pedalChimbalState' = r.pedalChimbalState
    /\ lastPedalChimbalState' = r.lastPedalChimbalState
    /\ playing' = r.playing
    /\ now' = t2
    /\ reading' = rd
    /\ out' = r.out
    /\ obs' = r.obs
    /\ nOn' = [j \in Ctrl |-> IF j \in counting
                              THEN (IF r.obs[j].branch = "onset" THEN 0 ELSE nOn[j])
                                   + Count(r.out, j, "on")
                              ELSE nOn[j]]
    /\ nOff' = [j \in Ctrl |-> IF j \in counting
                               THEN (IF r.obs[j].branch = "onset" THEN 0 ELSE nOff[j])
                                    + Count(r.out, j, "off")
                               ELSE nOff[j]]
    /\ env' = e

\* setup() and the initialisers of the globals, src/main.c:161-228
InitProgram ==
    /\ padState = [c \in Chan |-> PAD_STATE_IDLE]
    /\ stateChangeTime = [c \in Chan |-> 0]
    /\ peakSensorValues = [c \in Chan |-> 0]
    /\ retriggerThresholdInitialDecay = [c \in Chan |-> 0]
    /\ lastHighVelocityMidiTime = 0
    /\ pedalChimbalState = HIGH
    /\ lastPedalChimbalState = HIGH
    /\ playing = [f \in FlagNames |-> FALSE]
    /\ now = 0
    /\ reading = [c \in Chan |-> 0]
    /\ out = <<>>
    /\ obs = [j \in Ctrl |-> NoObs]
    /\ nOn = [j \in Ctrl |-> 0]
    /\ nOff = [j \in Ctrl |-> 0]

---------------------------------------------------------------------------
(* The player and the clock: the inputs of the passes.                       *)
(* The real loop runs a pass every millisecond or two; a pass in which no     *)
(* pad changes state only moves the clock, so the model samples the passes:   *)
(* the next pass comes a short delay later while a struck pad captures its    *)
(* peak, and one of the longer delays later otherwise.                        *)

\* passes are explored while millis() is at most MaxTime
MaxTime == 300

\* delay to a pass inside the peak window
ShortDelay == PEAK_DETECTION_WINDOW_MS - 1
\* delays between sampled passes: one silent debounce, one repique window
LongDelays == {SILENT_DEBOUNCE_MS, REPIQUE_CHECK_MS}

Delays(P) ==
    IF \E j \in P : padState[j] = PAD_STATE_PEAK_DETECTION
    THEN {ShortDelay, SILENT_DEBOUNCE_MS}
    ELSE LongDelays

\* a strong but not full-scale reading
Strong == 400

\* What one pass can read from a struck pad, <<principal, secundario>>: the
\* boundary and scenario values of the pad's thresholds and classifier.
Strokes(j) ==
    IF j = TOM2_PAD
    THEN {<<Thr(j), 0>>, <<Thr(j) + 1, 0>>, <<ADC_MAX, 0>>,
          <<940, 0>>,                    \* velocity 115
          <<941, 0>>}                    \* velocity 116
    ELSE IF j \in SimplePads
    THEN {<<Thr(j), 0>>, <<Thr(j) + 1, 0>>, <<ADC_MAX, 0>>}
    ELSE IF j = CAIXA_PAD
    THEN {<<Thr(j), Thr(j + 1)>>,        \* both at threshold
          <<Thr(j) + 1, Thr(j + 1)>>,    \* head just above
          <<Thr(j), Thr(j + 1) + 1>>,    \* rim just above, head at threshold
          <<0, Thr(j + 1) + 1>>,         \* rim just above, head silent
          <<720, 160>>,                  \* rimshot
          <<700, 700>>,                  \* rimshot with a dominant rim
          <<ADC_MAX, ADC_MAX>>,          \* full rimshot
          <<ADC_MAX, Thr(j + 1)>>,       \* full head
          <<Strong, ADC_MAX>>}           \* full rim
    ELSE {<<Thr(j), Thr(j + 1)>>,        \* both at threshold
          <<Thr(j) + 1, Thr(j + 1)>>,    \* bow just above
          <<Thr(j), Thr(j + 1) + 1>>,    \* bell just above
          <<Thr(j) + 1, 0>>,             \* weak edge grab
          <<Strong, 0>>,                 \* edge grab
          <<Strong, 147>>,               \* bow over a bell reading that the gain saturates
          <<Thr(j), 147>>,               \* the same bell reading, bow at threshold
          <<ADC_MAX, Thr(j + 1)>>,       \* full bow, bell at threshold
          <<ADC_MAX, ADC_MAX>>,          \* both full
          <<Strong, ADC_MAX>>}           \* full bell

\* the strokes that leave an idle pad idle
QuietStrokes(j) ==
    {k \in Strokes(j) : k[1] <= Thr(j) /\ (j \in SimplePads \/ k[2] <= Thr(j + 1))}

\* What the player uses on pad j in one run: a simple pad gets all its strokes;
\* a dual-zone pad the quiet stroke with one other, or with the weakest and the
\* strongest bow/head stroke.
Palettes(j) ==
    IF j \in SimplePads
    THEN {Strokes(j)}
    ELSE {QuietStrokes(j) \cup {k} : k \in Strokes(j) \ QuietStrokes(j)}
         \cup {QuietStrokes(j) \cup {<<Thr(j) + 1, Thr(j + 1)>>, <<ADC_MAX, Thr(j + 1)>>}}

\* the reading vector of a pass: pad j of P reads k[j], every other channel 0
ReadingOf(P, k) ==
    [c \in Chan |-> IF c \in P THEN k[c][1]
                    ELSE IF c - 1 \in P \cap DualPads THEN k[c - 1][2]
                    ELSE 0]

\* the choices of one stroke per pad of P, pad j from offer[j]
StrokeChoices(P, offer) ==
    {k \in [P -> UNION {offer[j] : j \in P}] : \A j \in P : k[j] \in offer[j]}

\* pedal levels the player may give: the pedal moves only when the hi-hat is played
PedalLevels(P) == IF CHIMBAL_PAD \in P THEN {LOW, HIGH} ELSE {HIGH}

\* nothing above a threshold, pedal not moved
AllQuiet(level, rd) ==
    /\ level = lastPedalChimbalState
    /\ \A c \in Chan : rd[c] <= Thr(c)

\* The player's settings: one pad struck, with one of its palettes.
Settings ==
    {[pads |-> {j}, offer |-> (j :> pal)] : <<j, pal>> \in
        UNION {{<<j, pal>> : pal \in Palettes(j)} : j \in Ctrl}}

\* Settings with two pads struck together: the hi-hat, with its pedal, and the
\* crash, each either quiet or with one full stroke (a full bow hit with the
\* bell at its threshold is an edge grab).
Ensembles ==
    {[pads |-> {CHIMBAL_PAD, ATAQUE_BORDA_PAD},
      offer |-> (CHIMBAL_PAD :> {<<Thr(CHIMBAL_PAD), 0>>, <<ADC_MAX, 0>>})
                @@ (ATAQUE_BORDA_PAD :>
                       {<<Thr(ATAQUE_BORDA_PAD), Thr(ATAQUE_CUPULA_PAD)>>,
                        <<ADC_MAX, Thr(ATAQUE_CUPULA_PAD)>>})]}

(* Spec: the player strikes the pads of env.pads freely with the strokes of *)
(* env.offer.                                                               *)
Init ==
    /\ InitProgram
    /\ \E g \in Settings :
          env = [mode |-> "free", hit |-> -1, pads |-> g.pads, offer |-> g.offer,
                 quiet |-> TRUE, phase |-> "free", clear |-> FALSE]

Next ==
    \E d \in Delays(env.pads), level \in PedalLevels(env.pads),
       k \in StrokeChoices(env.pads, env.offer) :
        /\ now + d <= MaxTime
        /\ Pass(level, ReadingOf(env.pads, k), now + d, now + d,
                [env EXCEPT !.quiet = @ /\ AllQuiet(level, ReadingOf(env.pads, k))], {})

Spec == Init /\ [][Next]_vars

---------------------------------------------------------------------------
(* SpecTick: the hi-hat, its pedal and the crash played together for a      *)
(* short time, so that several controllers write in one pass.               *)

\* passes of SpecTick are explored while millis() is at most MaxTimeTick
MaxTimeTick == 80

InitTick ==
    /\ InitProgram
    /\ \E g \in Ensembles :
          env = [mode |-> "free", hit |-> -1, pads |-> g.pads, offer |-> g.offer,
                 quiet |-> TRUE, phase |-> "free", clear |-> FALSE]

NextTick ==
    \E d \in {ShortDelay, SILENT_DEBOUNCE_MS}, level \in PedalLevels(env.pads),
       k \in StrokeChoices(env.pads, env.offer) :
        /\ now + d <= MaxTimeTick
        /\ Pass(level, ReadingOf(env.pads, k), now + d, now + d,
                [env EXCEPT !.quiet = @ /\ AllQuiet(level, ReadingOf(env.pads, k))], {})

SpecTick == InitTick /\ [][NextTick]_vars

---------------------------------------------------------------------------
(* SpecHit: one isolated hit.  The player keeps one pad quiet ("before"),   *)
(* then strikes it: a burst of strokes that starts with one above a          *)
(* threshold and ends before the pad's silent debounce does ("burst"), and   *)
(* then keeps it quiet again ("after").  The events the pad writes are       *)
(* counted in nOn and nOff; env.clear records that no crosstalk window was   *)
(* active at the onset.                                                      *)

\* passes of SpecHit are explored while millis() is at most MaxTimeHit
MaxTimeHit == 480

\* the burst may go on in this pass: the pad is capturing its peak or is in a
\* silent debounce that has not ended
BurstMayContinue(j, t) ==
    \/ padState[j] = PAD_STATE_PEAK_DETECTION
    \/ /\ padState[j] = PAD_STATE_SILENT_DEBOUNCE
       /\ USub(t, stateChangeTime[j]) < SILENT_DEBOUNCE_MS

\* delays of SpecHit: short ones also during the silent debounce
DelaysHit(P) ==
    IF \E j \in P : padState[j] \in {PAD_STATE_PEAK_DETECTION, PAD_STATE_SILENT_DEBOUNCE}
    THEN {ShortDelay, SILENT_DEBOUNCE_MS}
    ELSE LongDelays

\* The settings of SpecHit: one pad struck with one of its palettes, or the
\* crash struck with edge grabs after a full hit on the first tom.
SettingsHit ==
    {[hit |-> CHOOSE j \in g.pads : TRUE, pads |-> g.pads, offer |-> g.offer] : g \in Settings}
    \cup {[hit |-> ATAQUE_BORDA_PAD,
           pads |-> {TOM1_PAD, ATAQUE_BORDA_PAD},
           offer |-> (TOM1_PAD :> {<<Thr(TOM1_PAD), 0>>, <<ADC_MAX, 0>>})
                     @@ (ATAQUE_BORDA_PAD :>
                            (QuietStrokes(ATAQUE_BORDA_PAD)
                             \cup {<<Thr(ATAQUE_BORDA_PAD) + 1, 0>>, <<Strong, 0>>}))]}

\* the phase after the pads got strokes k at time t in phase ph, or "" where
\* the script does not allow them: pad h is hit in the first two passes, or
\* right after another pad's peak capture (in SpecWrap: before the other pad
\* is idle again); the other pads are quiet from the onset on; env.start is the clock value of the first pass of the script
HitPhase(h, k, t, ph) ==
    LET quietStroke == k[h] \in QuietStrokes(h)
        othersQuiet == \A o \in env.pads \ {h} : k[o] \in QuietStrokes(o)
        othersSettled == \A o \in env.pads \ {h} : padState[o] # PAD_STATE_PEAK_DETECTION
        othersIdle == \A o \in env.pads \ {h} : padState[o] = PAD_STATE_IDLE
        mayWait == \/ now = env.start \/ ~othersSettled
                   \/ env.mode = "wrap" /\ ~othersIdle /\ othersQuiet
    IN
    CASE ph = "before" -> IF ~quietStroke
                          THEN (IF othersQuiet /\ othersSettled THEN "burst" ELSE "")
                          ELSE IF mayWait THEN "before" ELSE ""
      [] ph = "burst" -> IF ~othersQuiet THEN ""
                         ELSE IF BurstMayContinue(h, t) /\ ~quietStroke THEN "burst"
                         ELSE IF quietStroke THEN "after" ELSE ""
      [] OTHER -> IF quietStroke /\ othersQuiet THEN "after" ELSE ""

InitHit ==
    /\ InitProgram
    /\ \E g \in SettingsHit :
          env = [mode |-> "hit", hit |-> g.hit, pads |-> g.pads, offer |-> g.offer,
                 quiet |-> TRUE, phase |-> "before", clear |-> FALSE, start |-> 0,
                 best |-> <<0, 0>>, before |-> [st |-> PAD_STATE_IDLE, pk |-> <<0, 0>>]]

\* the largest readings <<principal, secundario>> of pad h since it entered
\* PEAK_DETECTION, after a pass at clock value t that read k and led to the
\* globals r: the readings of the entry pass, then the larger of the old value
\* and the readings of each pass less than PEAK_DETECTION_WINDOW_MS after the
\* entry; kept by the player, not by the program
BestReadings(h, k, t, r) ==
    IF padState[h] # PAD_STATE_PEAK_DETECTION
    THEN IF r.padState[h] = PAD_STATE_PEAK_DETECTION THEN k ELSE env.best
    ELSE IF USub(t, stateChangeTime[h]) < PEAK_DETECTION_WINDOW_MS
    THEN <<Max2(env.best[1], k[1]), Max2(env.best[2], k[2])>>
    ELSE env.best

\* the peak registers of the controller at loop position h (a simple pad has one)
PeaksOf(h) ==
    <<peakSensorValues[h], IF h \in DualPads THEN peakSensorValues[h + 1] ELSE 0>>

NextHit ==
    \E d \in DelaysHit(env.pads), level \in PedalLevels(env.pads),
       k \in StrokeChoices(env.pads, env.offer) :
        /\ now + d <= MaxTimeHit
        /\ HitPhase(env.hit, k, now + d, env.phase) # ""
        /\ \E r \in {LoopResult(level, ReadingOf(env.pads, k), now + d, now + d)} :
           Pass(level, ReadingOf(env.pads, k), now + d, now + d,
                [env EXCEPT !.quiet = @ /\ AllQuiet(level, ReadingOf(env.pads, k)),
                            !.phase = HitPhase(env.hit, k, now + d, env.phase),
                            !.clear = IF env.phase = "before"
                                      THEN USub(now + d, lastHighVelocityMidiTime)
                                              >= CROSSTALK_WINDOW_MS
                                      ELSE @,
                            !.best = BestReadings(env.hit, k[env.hit], now + d, r),
                            !.before = [st |-> padState[env.hit], pk |-> PeaksOf(env.hit)]],
                {env.hit})

SpecHit == InitHit /\ [][NextHit]_vars

---------------------------------------------------------------------------
(* SpecWrap: one isolated hit played across the wrap of millis().  The pads  *)
(* stay quiet until shortly before the clock wraps (Boot: the passes of that *)
(* time change nothing, so one pass stands for them), then the script of     *)
(* SpecHit is played.  env.true is the time since the start that does not    *)
(* wrap; env.entry and env.high are the true times at which the struck pad's *)
(* stateChangeTime and lastHighVelocityMidiTime were last written, and       *)
(* env.elapsed and env.sinceHigh the true times between those and the last   *)
(* pass.                                                                     *)

\* passes of SpecWrap are explored for MaxTimeWrap ms after the quiet time
MaxTimeWrap == 260

\* the clock values at which the quiet time ends, shortly before the wrap
WrapStarts == {ClockMod - 40, ClockMod - 100}

\* The settings of SpecWrap: the snare with one stroke, the second tom, or the
\* crash struck after a full hit on the first tom.
SettingsWrap ==
    {g \in SettingsHit : \/ g.hit \in {TOM2_PAD, ATAQUE_BORDA_PAD}
                         \/ g.hit = CAIXA_PAD /\ <<720, 160>> \in g.offer[CAIXA_PAD]}

InitWrap ==
    /\ InitProgram
    /\ \E g \in SettingsWrap :
          env = [mode |-> "wrap", hit |-> g.hit, pads |-> g.pads, offer |-> g.offer,
                 quiet |-> TRUE, phase |-> "boot", clear |-> FALSE, start |-> 0,
                 true |-> 0, entry |-> 0, high |-> 0, elapsed |-> 0, sinceHigh |-> 0]

\* the quiet time: the first sampled pass is the one at a clock value of WrapStarts
Boot ==
    \E d \in WrapStarts :
        /\ env.phase = "boot"
        /\ Pass(HIGH, [c \in Chan |-> 0], d, d,
                [env EXCEPT !.phase = "before", !.start = d, !.true = d,
                            !.elapsed = d, !.sinceHigh = d],
                {env.hit})

\* a pass of the script, d ms after the last one, at the wrapped clock value
WrapPass ==
    \E d \in DelaysHit(env.pads), level \in PedalLevels(env.pads),
       k \in StrokeChoices(env.pads, env.offer) :
        \E t \in {(now + d) % ClockMod} :
            /\ env.phase # "boot"
            /\ env.true + d <= env.start + MaxTimeWrap
            /\ HitPhase(env.hit, k, t, env.phase) # ""
            /\ \E r \in {LoopResult(level, ReadingOf(env.pads, k), t, t)} :
               Pass(level, ReadingOf(env.pads, k), t, t,
                    [env EXCEPT !.quiet = @ /\ AllQuiet(level, ReadingOf(env.pads, k)),
                                !.phase = HitPhase(env.hit, k, t, env.phase),
                                !.true = @ + d,
                                !.elapsed = env.true + d - env.entry,
                                !.sinceHigh = env.true + d - env.high,
                                !.entry = IF r.stateChangeTime[env.hit]
                                              # stateChangeTime[env.hit]
                                          THEN env.true + d ELSE @,
                                !.high = IF r.lastHighVelocityMidiTime
                                             # lastHighVelocityMidiTime
                                         THEN env.true + d ELSE @],
                    {env.hit})

NextWrap == Boot \/ WrapPass

SpecWrap == InitWrap /\ [][NextWrap]_vars

---------------------------------------------------------------------------
(* SpecScen: one pass per millisecond, the first at millis() = 0.  One pad    *)
(* reads the hit of Scenario1 in the passes 0..10 and then silence, except    *)
(* that the player may touch it again at three later times; every other      *)
(* sensor is silent.  env.tick is the time of the next pass, env.fired the    *)
(* time of the pass in which the pad last wrote a note-on (-1: none) and      *)
(* env.again whether it left REPIQUE_CHECK for a new peak capture since.      *)

\* passes of SpecScen are explored while millis() is at most MaxTimeScen
MaxTimeScen == 360

\* the readings of the struck sensor in the passes 0..10
Scenario1 == <<0, 0, 80, 200, 300, 250, 150, 90, 60, 40, 20>>

\* what the struck sensor may read in the pass at time t
ScenarioReadings(t) ==
    IF t < Len(Scenario1) THEN {Scenario1[t + 1]}
    ELSE IF t \in {15, 50} THEN {0, 100}
    ELSE IF t = 140 THEN {0, 300}
    ELSE {0}

\* the pads the scenario is played on
ScenarioPads == {SURDO_PAD, TOM1_PAD, CAIXA_PAD}

InitScen ==
    /\ InitProgram
    /\ \E j \in ScenarioPads :
          env = [mode |-> "scenario", hit |-> j, pads |-> {j},
                 offer |-> (j :> {<<0, 0>>}), quiet |-> TRUE, phase |-> "free",
                 clear |-> FALSE, tick |-> 0, fired |-> -1, again |-> FALSE]

NextScen ==
    \E v \in ScenarioReadings(env.tick) :
        \E rd \in {ReadingOf(env.pads, env.hit :> <<v, 0>>)} :
        \E r \in {LoopResult(HIGH, rd, env.tick, env.tick)} :
            /\ env.tick <= MaxTimeScen
            /\ Pass(HIGH, rd, env.tick, env.tick,
                    [env EXCEPT !.quiet = @ /\ AllQuiet(HIGH, rd),
                                !.tick = @ + 1,
                                !.fired = IF Count(r.out, env.hit, "on") > 0
                                          THEN env.tick ELSE @,
                                !.again = IF Count(r.out, env.hit, "on") > 0 THEN FALSE
                                          ELSE @ \/ r.obs[env.hit].branch = "retrigger"],
                    {env.hit})

SpecScen == InitScen /\ [][NextScen]_vars

TypeOK == \A j \in Ctrl : padState[j] \in PadState

---------------------------------------------------------------------------
(* Properties *)

\* the pads the second loop visits as ride and crash
Cymbals == {CONDUCAO_BORDA_PAD, ATAQUE_BORDA_PAD}

\* events written by loop position j in the last pass
EventsOf(j) == SelectSeq(out, LAMBDA ev : ev.who = j)

\* velocities of the note-ons written by loop position j in the last pass
OnVelocities(j) ==
    {out[i].velocity : i \in {i \in 1 .. Len(out) : out[i].who = j /\ out[i].type = "on"}}

\* branches of PEAK_DETECTION that end a hit with output
FireBranches == {"fire", "head", "rim", "rimshot", "bell", "bow", "choke"}

\* inputs the step operators are applied to in StateInEnum
ProbeReadings == {0, ADC_MAX}
ProbeTimes == {now, (now + REPIQUE_CHECK_MS) % ClockMod}

\* C1: every controlling pad index is always in exactly one of the five
\* PadState values, and from every reachable state the pad's step is defined
\* for every reading and clock value and leaves the pad in one of the five.
StateInEnum ==
    /\ \A j \in Ctrl : padState[j] \in PadState
    /\ \A j \in SimplePads : \A r \in ProbeReadings, t \in ProbeTimes :
          SimplePad(Globals, j, r, t).padState[j] \in PadState
    /\ \A j \in DualPads : \A rp \in ProbeReadings, rs \in ProbeReadings, t \in ProbeTimes :
          DualPad(Globals, j, rp, rs, <<rp, rp, rs, rs>>, t).padState[j] \in PadState

\* a snare hit has gone through PEAK_DETECTION and SILENT_DEBOUNCE into REPIQUE_CHECK
StateInEnumWitness ==
    /\ padState[CAIXA_PAD] = PAD_STATE_REPIQUE_CHECK
    /\ obs[CAIXA_PAD].from = PAD_STATE_SILENT_DEBOUNCE
    /\ padState[BUMBO_PAD] = PAD_STATE_IDLE

\* C2: every note-on the program writes carries a velocity from minVelocity to
\* maxVelocity (the pedal chick, written with 30, included).
NoteOnVelocityInRange ==
    \A i \in 1 .. Len(out) :
        out[i].type = "on" => out[i].velocity >= minVelocity /\ out[i].velocity <= maxVelocity

\* the ride bell, whose gain takes the adjusted value far above 1023, is sent
\* with the top velocity
NoteOnVelocityWitness ==
    /\ obs[CONDUCAO_BORDA_PAD].branch = "bell"
    /\ peakSensorValues[CONDUCAO_CUPULA_PAD] = ADC_MAX
    /\ OnVelocities(CONDUCAO_BORDA_PAD) = {maxVelocity}

\* C3 as amended: in every REPIQUE_CHECK pass that compares a reading, the level
\* compared against is at least threshold * 1.5 truncated to an integer.
RetriggerLevelAtLeastTruncatedFloor ==
    \A j \in Ctrl :
        obs[j].branch \in {"retrigger", "repique_wait"} => 2 * obs[j].level >= 3 * Thr(j) - 1

\* C3 as stated: the level is at least threshold * 1.5 rounded up.
RetriggerLevelAtLeastCeiling ==
    \A j \in Ctrl :
        obs[j].branch \in {"retrigger", "repique_wait"} => 2 * obs[j].level >= 3 * Thr(j)

\* a pad with an odd threshold is compared against its truncated floor after a weak hit
RetriggerLevelWitness ==
    \E j \in Ctrl :
        /\ obs[j].branch = "repique_wait"
        /\ Thr(j) % 2 = 1
        /\ 2 * obs[j].level = 3 * Thr(j) - 1

\* C4: while every reading so far has been at or below its threshold and the
\* pedal has not moved, no event is written and every pad is IDLE.
QuietStaysIdle ==
    env.quiet =>
        /\ out = <<>>
        /\ \A j \in Ctrl : padState[j] = PAD_STATE_IDLE
        /\ \A c \in Chan : peakSensorValues[c] = 0

\* a dual-zone pad has been read with both sensors exactly at their thresholds
QuietStaysIdleWitness ==
    \E j \in DualPads :
        /\ env.quiet
        /\ now >= REPIQUE_CHECK_MS
        /\ reading[j] = Thr(j) /\ reading[j + 1] = Thr(j + 1)
        /\ obs[j].branch = "idle"

\* C6: an IDLE pad whose reading equals its threshold (the secondary, if any,
\* not above its own) stays IDLE; an onset needs a reading strictly above.
ThresholdIsExclusive ==
    \A j \in Ctrl :
        LET dual == j \in DualPads IN
        /\ (/\ obs[j].from = PAD_STATE_IDLE /\ obs[j].branch # "none"
            /\ reading[j] = Thr(j)
            /\ dual => reading[j + 1] <= Thr(j + 1))
           => obs[j].branch = "idle" /\ padState[j] = PAD_STATE_IDLE
        /\ obs[j].branch = "onset"
           => reading[j] > Thr(j) \/ (dual /\ reading[j + 1] > Thr(j + 1))

\* a simple pad read exactly at its threshold after an earlier hit of it ended
ThresholdIsExclusiveWitness ==
    \E j \in SimplePads :
        /\ reading[j] = Thr(j)
        /\ obs[j].branch = "idle"
        /\ stateChangeTime[j] > 0

\* the captured peaks of cymbal j have the edge-grab pattern: secondary below
\* 5 % of the primary
ChokePattern(j) ==
    j \in Cymbals /\ 20 * peakSensorValues[j + 1] < peakSensorValues[j]

\* the isolated hit of SpecHit on pad j is over: burst ended, pad back in IDLE
HitOver(j) ==
    /\ env.mode = "hit" /\ j = env.hit
    /\ env.phase = "after"
    /\ padState[j] = PAD_STATE_IDLE

\* C5: an isolated hit on an IDLE pad with no crosstalk window active at the
\* onset, and without the edge-grab pattern, has produced exactly one note-on
\* from that pad when the pad is back in IDLE.
IsolatedHitOneNoteOn ==
    \A j \in Ctrl :
        HitOver(j) /\ env.clear /\ ~ChokePattern(j) => nOn[j] = 1

\* a ride hit with a several-pass burst has ended with its single note-on
IsolatedHitWitness ==
    /\ HitOver(CONDUCAO_BORDA_PAD) /\ env.clear /\ ~ChokePattern(CONDUCAO_BORDA_PAD)
    /\ obs[CONDUCAO_BORDA_PAD].branch = "repique_end"
    /\ peakSensorValues[CONDUCAO_BORDA_PAD] = ADC_MAX
    /\ nOn[CONDUCAO_BORDA_PAD] = 1

\* the sensor whose velocity the note-on of a resolved hit carries, as a set
\* (both sensors for a rimshot, none for an edge grab)
VoiceSensors(j) ==
    CASE obs[j].branch \in {"fire", "head", "bow"} -> {j}
      [] obs[j].branch \in {"rim", "bell"} -> {j + 1}
      [] obs[j].branch = "rimshot" -> {j, j + 1}
      [] OTHER -> {}

\* C7 as amended: a note-on whose sensor peaked at threshold + 1 carries
\* velocity 10, except from the ride bell (gain 7), where it carries 35.
JustAboveThresholdVelocity ==
    \A j \in Ctrl :
        \A c \in VoiceSensors(j) :
            (obs[j].branch # "rimshot" /\ peakSensorValues[c] = Thr(c) + 1)
                => OnVelocities(j) = {IF c = CONDUCAO_CUPULA_PAD THEN 35 ELSE minVelocity}

\* C7 as stated: velocity 10 for every pad, the ones with a gain other than 1 included.
JustAboveThresholdVelocityIsMin ==
    \A j \in Ctrl :
        \A c \in VoiceSensors(j) :
            (obs[j].branch # "rimshot" /\ peakSensorValues[c] = Thr(c) + 1)
                => OnVelocities(j) = {minVelocity}

\* the crash bell (gain 1.2) peaked just above its threshold and was sent with 10
JustAboveThresholdWitness ==
    /\ obs[ATAQUE_BORDA_PAD].branch = "bell"
    /\ peakSensorValues[ATAQUE_CUPULA_PAD] = Thr(ATAQUE_CUPULA_PAD) + 1
    /\ OnVelocities(ATAQUE_BORDA_PAD) = {minVelocity}

\* peak * gain of sensor c is at least 1023
Saturated(c) == peakSensorValues[c] * gainFactor10[c + 1] >= 10 * ADC_MAX

\* C8 as amended: a note-on carries velocity 127 when peak * gain of the sensor
\* whose velocity it carries (either one for a rimshot) is at least 1023.
SaturatedVoiceVelocity ==
    \A j \in Ctrl :
        (\E c \in VoiceSensors(j) : Saturated(c)) => OnVelocities(j) = {maxVelocity}

\* C8 as stated: every resolved hit of a pad with a sensor whose peak * gain is
\* at least 1023 (primary or secondary) writes a note-on with velocity 127.
SaturatedHitVelocity ==
    \A j \in Ctrl :
        (/\ obs[j].branch \in FireBranches
         /\ Saturated(j) \/ (j \in DualPads /\ Saturated(j + 1)))
            => maxVelocity \in OnVelocities(j)

\* a ride bell reading that only the gain takes to 1023 is sent with 127
SaturatedVoiceWitness ==
    /\ obs[CONDUCAO_BORDA_PAD].branch = "bell"
    /\ peakSensorValues[CONDUCAO_CUPULA_PAD] < ADC_MAX
    /\ Saturated(CONDUCAO_CUPULA_PAD)
    /\ OnVelocities(CONDUCAO_BORDA_PAD) = {maxVelocity}

\* the note-offs of an edge grab: bow voice, then bell voice
ChokeEvents(j) ==
    <<[type |-> "off", note |-> Note(j), velocity |-> 0, who |-> j],
      [type |-> "off", note |-> Note(j + 1), velocity |-> 0, who |-> j]>>

\* C9: a ride/crash hit resolved with the edge-grab pattern writes the note-offs
\* of its bow and bell voices and leaves the pad in CHOKE_CONFIRMATION.
PotentialChokeEntersConfirmation ==
    \A j \in Cymbals :
        obs[j].branch = "choke"
            => EventsOf(j) = ChokeEvents(j) /\ padState[j] = PAD_STATE_CHOKE_CONFIRMATION

\* the isolated hit on cymbal j was not open to the crosstalk discard: no
\* window active at its onset, or a velocity of at least the discard threshold
NotDiscardable(j) ==
    \/ env.clear
    \/ Max2(Velocity(j, peakSensorValues[j]), Velocity(j + 1, peakSensorValues[j + 1]))
           >= LOW_VELOCITY_DISCARD_THRESHOLD

\* C10 as amended: an isolated ride/crash hit with the edge-grab pattern that
\* the crosstalk filter does not discard writes exactly two note-offs, bow
\* voice then bell voice, and no note-on.
ChokeTwoNoteOffs ==
    \A j \in Cymbals :
        /\ obs[j].branch = "choke" => EventsOf(j) = ChokeEvents(j)
        /\ HitOver(j) /\ ChokePattern(j) /\ NotDiscardable(j)
             => nOff[j] = 2 /\ nOn[j] = 0

\* C10 as stated: every ride/crash hit with the edge-grab pattern writes
\* exactly two note-offs and no note-on.
ChokeAlwaysTwoNoteOffs ==
    \A j \in Cymbals :
        HitOver(j) /\ ChokePattern(j) => nOff[j] = 2 /\ nOn[j] = 0

\* a crash edge grab with a non-zero bell reading has ended with its two note-offs
ChokeTwoNoteOffsWitness ==
    /\ HitOver(ATAQUE_BORDA_PAD) /\ ChokePattern(ATAQUE_BORDA_PAD)
    /\ peakSensorValues[ATAQUE_CUPULA_PAD] > 0
    /\ nOff[ATAQUE_BORDA_PAD] = 2 /\ nOn[ATAQUE_BORDA_PAD] = 0

\* a weak crash edge grab less than 130 ms after a full tom hit has ended
\* without any event of the crash (reached in SpecHit)
ChokeDiscardedAfterStrongHit ==
    /\ HitOver(ATAQUE_BORDA_PAD) /\ ChokePattern(ATAQUE_BORDA_PAD)
    /\ lastHighVelocityMidiTime > 0
    /\ nOff[ATAQUE_BORDA_PAD] = 0 /\ nOn[ATAQUE_BORDA_PAD] = 0

\* the step of pad j at clock value t with silent sensors, from the current state
StepOf(j, t) ==
    IF j \in SimplePads THEN SimplePad(Globals, j, 0, t)
    ELSE DualPad(Globals, j, 0, 0, <<0, 0, 0, 0>>, t)

\* the largest velocity of the captured peaks of pad j
PeakVelocity(j) ==
    IF j \in SimplePads THEN Velocity(j, peakSensorValues[j])
    ELSE Max2(Velocity(j, peakSensorValues[j]), Velocity(j + 1, peakSensorValues[j + 1]))

\* pad j is in PEAK_DETECTION with a peak above a threshold and its window is over at t
ResolvesAt(j, t) ==
    /\ padState[j] = PAD_STATE_PEAK_DETECTION
    /\ USub(t, stateChangeTime[j]) >= PEAK_DETECTION_WINDOW_MS
    /\ \/ peakSensorValues[j] > Thr(j)
       \/ j \in DualPads /\ peakSensorValues[j + 1] > Thr(j + 1)

\* the clock value one peak window after the last pass
AfterWindow == (now + PEAK_DETECTION_WINDOW_MS) % ClockMod

\* C11: a pad that resolves PEAK_DETECTION with a peak above threshold, largest
\* velocity below 29 and less than 130 ms after the last high-velocity event
\* writes no event, goes to IDLE, and leaves lastHighVelocityMidiTime,
\* retriggerThresholdInitialDecay and the playing flags as they were.
CrosstalkDiscardFrame ==
    \A j \in Ctrl :
        /\ (/\ ResolvesAt(j, AfterWindow)
            /\ PeakVelocity(j) < 29
            /\ USub(AfterWindow, lastHighVelocityMidiTime) < 130)
           => LET r == StepOf(j, AfterWindow) IN
              /\ r.out = <<>>
              /\ r.padState = [padState EXCEPT ![j] = PAD_STATE_IDLE]
              /\ r.lastHighVelocityMidiTime = lastHighVelocityMidiTime
              /\ r.retriggerThresholdInitialDecay = retriggerThresholdInitialDecay
              /\ r.playing = playing
        /\ obs[j].branch = "discard"
           => EventsOf(j) = <<>> /\ padState[j] = PAD_STATE_IDLE

\* the crash has dropped a weak hit less than 130 ms after a full tom hit
CrosstalkDiscardWitness ==
    /\ obs[ATAQUE_BORDA_PAD].branch = "discard"
    /\ lastHighVelocityMidiTime > 0
    /\ USub(now, lastHighVelocityMidiTime) < CROSSTALK_WINDOW_MS
    /\ padState[ATAQUE_BORDA_PAD] = PAD_STATE_IDLE

\* pad j resolving at t would be dropped by the crosstalk filter
DiscardedAt(j, t) ==
    PeakVelocity(j) < 29 /\ USub(t, lastHighVelocityMidiTime) < 130

\* the largest velocity of the hit pad j resolved in the last pass
FiredVelocity(j) == Max2(obs[j].vP, obs[j].vS)

\* C12: a kick hit never changes lastHighVelocityMidiTime, whatever its
\* velocity; a hit of any other pad that is not discarded and whose largest
\* velocity is above 115 sets it to the clock value of its pass.
HighVelocityUpdate ==
    /\ StepOf(BUMBO_PAD, AfterWindow).lastHighVelocityMidiTime = lastHighVelocityMidiTime
    /\ env.pads = {BUMBO_PAD} => lastHighVelocityMidiTime = 0
    /\ \A j \in Ctrl \ {BUMBO_PAD} :
          /\ (obs[j].branch \in FireBranches /\ FiredVelocity(j) > 115)
                => lastHighVelocityMidiTime = obs[j].at /\ obs[j].at = now
          /\ (ResolvesAt(j, AfterWindow) /\ ~DiscardedAt(j, AfterWindow)
                /\ PeakVelocity(j) > 115)
                => StepOf(j, AfterWindow).lastHighVelocityMidiTime = AfterWindow

\* the kick has fired with the top velocity and lastHighVelocityMidiTime is untouched
HighVelocityUpdateWitness ==
    /\ obs[BUMBO_PAD].branch = "fire"
    /\ obs[BUMBO_PAD].vP = maxVelocity
    /\ now > 0
    /\ lastHighVelocityMidiTime = 0

\* C13 as amended: a hit of a pad other than the kick that is not discarded
\* arms the crosstalk window when its largest velocity is strictly above 115;
\* with exactly 115 (or less) it leaves lastHighVelocityMidiTime as it was.
ArmsStrictlyAbove ==
    \A j \in Ctrl \ {BUMBO_PAD} :
        (ResolvesAt(j, AfterWindow) /\ ~DiscardedAt(j, AfterWindow))
            => StepOf(j, AfterWindow).lastHighVelocityMidiTime
                  = IF PeakVelocity(j) >= 116 THEN AfterWindow ELSE lastHighVelocityMidiTime

\* C13 as stated: a hit of a pad other than the kick with velocity at or above
\* 115, exactly 115 included, sets lastHighVelocityMidiTime to the clock value
\* of its pass.
ArmsAtOrAbove ==
    \A j \in Ctrl \ {BUMBO_PAD} :
        (obs[j].branch \in FireBranches /\ FiredVelocity(j) >= 115)
            => lastHighVelocityMidiTime = obs[j].at

\* the second tom has fired with velocity exactly 115 and the window is not armed
ArmsStrictlyAboveWitness ==
    /\ obs[TOM2_PAD].branch = "fire"
    /\ obs[TOM2_PAD].vP = HIGH_VELOCITY_THRESHOLD
    /\ lastHighVelocityMidiTime = 0

\* C14: a pad's discard decision uses lastHighVelocityMidiTime as it was
\* before the pad's own update in the same pass: the pad is discarded exactly
\* when its velocity is below 29 and the old value is less than 130 ms back,
\* and a pad that sets lastHighVelocityMidiTime has written its events.
DiscardUsesOldTime ==
    /\ \A j \in Ctrl :
          ResolvesAt(j, AfterWindow)
             => LET r == StepOf(j, AfterWindow) IN
                /\ (r.obs[j].branch = "discard") = DiscardedAt(j, AfterWindow)
                /\ r.lastHighVelocityMidiTime # lastHighVelocityMidiTime
                      => /\ r.out # <<>>
                         /\ r.padState[j] = PAD_STATE_SILENT_DEBOUNCE
                         /\ r.lastHighVelocityMidiTime = AfterWindow
    /\ (lastHighVelocityMidiTime = now /\ now > 0)
          => \E j \in Ctrl : /\ obs[j].branch \in FireBranches
                             /\ FiredVelocity(j) > HIGH_VELOCITY_THRESHOLD
                             /\ EventsOf(j) # <<>>
                             /\ padState[j] = PAD_STATE_SILENT_DEBOUNCE

\* a full snare hit inside the startup window has been sent and has set the time
DiscardUsesOldTimeWitness ==
    /\ obs[CAIXA_PAD].branch = "head"
    /\ obs[CAIXA_PAD].vP = maxVelocity
    /\ now < CROSSTALK_WINDOW_MS
    /\ lastHighVelocityMidiTime = now
    /\ Len(EventsOf(CAIXA_PAD)) = 1

\* an event as the pedal block writes it
PedalEvent(type, note, velocity) ==
    [type |-> type, note |-> note, velocity |-> velocity, who |-> -1]

\* what the pedal block has to write for level `level' in the current state
PedalExpected(level) ==
    IF level = lastPedalChimbalState THEN <<>>
    ELSE IF level = LOW
    THEN (IF playing["chimbalOpenSoundPlaying"]
          THEN <<PedalEvent("off", 46, 0)>> ELSE <<>>)
         \o <<PedalEvent("on", 44, 30)>>
    ELSE IF playing["chimbalClosedSoundPlaying"]
         THEN <<PedalEvent("off", 42, 0)>> ELSE <<>>

\* C15: the pedal block writes events only when the level differs from the
\* previous pass's: on a change to LOW a note-off 46 iff the open voice is
\* sounding, then one note-on 44 with velocity 30; on a change to HIGH a
\* note-off 42 iff the closed voice is sounding and nothing else.
PedalEvents ==
    /\ lastPedalChimbalState = pedalChimbalState
    /\ \A level \in {LOW, HIGH} :
          LET r == PedalBlock(Globals, level) IN
          /\ r.out = PedalExpected(level)
          /\ r.pedalChimbalState = level /\ r.lastPedalChimbalState = level
    /\ \A i \in 1 .. Len(EventsOf(-1)) :
          LET ev == EventsOf(-1)[i] IN
          /\ out[i] = ev
          /\ ev.note = 44 => ev.type = "on" /\ ev.velocity = 30 /\ pedalChimbalState = LOW
          /\ ev.note = 46 => ev.type = "off" /\ pedalChimbalState = LOW
          /\ ev.note = 42 => ev.type = "off" /\ pedalChimbalState = HIGH

\* the pedal was pressed while the open hi-hat voice was sounding
PedalEventsWitness ==
    /\ EventsOf(-1) = <<PedalEvent("off", 46, 0), PedalEvent("on", 44, 30)>>
    /\ pedalChimbalState = LOW
    /\ ~playing["chimbalOpenSoundPlaying"]

\* an event as the hi-hat pad writes it
HiHatEvent(type, note, velocity) ==
    [type |-> type, note |-> note, velocity |-> velocity, who |-> CHIMBAL_PAD]

\* what a hi-hat hit has to write with pedal level `level', velocity v and
\* playing flags `flags'
HiHatExpected(level, v, flags) ==
    IF level = LOW
    THEN <<HiHatEvent("on", 42, v)>>
         \o (IF flags["chimbalOpenSoundPlaying"] THEN <<HiHatEvent("off", 46, 0)>> ELSE <<>>)
    ELSE <<HiHatEvent("on", 46, v)>>
         \o (IF flags["chimbalClosedSoundPlaying"] THEN <<HiHatEvent("off", 42, 0)>> ELSE <<>>)

\* C16: a hi-hat hit that fires in a pass whose pedal level is LOW writes
\* note-on 42, then note-off 46 iff the open voice was sounding; otherwise
\* note-on 46, then note-off 42 iff the closed voice was sounding.  It writes
\* no note-on 42 with the pedal released and no note-on 46 with it pressed.
HiHatVoice ==
    /\ \A level \in {LOW, HIGH} :
          LET s1 == PedalBlock(Globals, level)
              r == SimplePad(s1, CHIMBAL_PAD, 0, AfterWindow)
          IN (ResolvesAt(CHIMBAL_PAD, AfterWindow) /\ ~DiscardedAt(CHIMBAL_PAD, AfterWindow))
                => SelectSeq(r.out, LAMBDA ev : ev.who = CHIMBAL_PAD)
                      = HiHatExpected(level, PeakVelocity(CHIMBAL_PAD), s1.playing)
    /\ \A i \in 1 .. Len(out) :
          (out[i].who = CHIMBAL_PAD /\ out[i].type = "on")
             => out[i].note = (IF pedalChimbalState = LOW THEN 42 ELSE 46)
    /\ obs[CHIMBAL_PAD].branch = "fire"
          => /\ EventsOf(CHIMBAL_PAD)[1].type = "on"
             /\ \A i \in 2 .. Len(EventsOf(CHIMBAL_PAD)) :
                   EventsOf(CHIMBAL_PAD)[i].type = "off"

\* a full closed hi-hat hit has been sent, later than one repique window after startup
HiHatVoiceWitness ==
    /\ obs[CHIMBAL_PAD].branch = "fire"
    /\ pedalChimbalState = LOW
    /\ EventsOf(CHIMBAL_PAD) = <<HiHatEvent("on", 42, maxVelocity)>>
    /\ playing["chimbalClosedSoundPlaying"]
    /\ stateChangeTime[CHIMBAL_PAD] > REPIQUE_CHECK_MS

\* the controllers in the order loop() runs them: the pedal block (-1), the
\* simple pads, the dual-zone pads
RunOrder == <<-1, BUMBO_PAD, SURDO_PAD, TOM1_PAD, TOM2_PAD, CHIMBAL_PAD,
              CAIXA_PAD, CONDUCAO_BORDA_PAD, ATAQUE_BORDA_PAD>>

RECURSIVE EventsInOrder(_)
\* the events of the last pass, controller by controller from position n of RunOrder on
EventsInOrder(n) ==
    IF n > Len(RunOrder) THEN <<>>
    ELSE EventsOf(RunOrder[n]) \o EventsInOrder(n + 1)

\* C17: in every pass the pedal block runs first and then every pad controller
\* once, 0..4 and then 5, 7, 9; the output of the pass is the pedal's events
\* followed by the pads' events by increasing pad index, each pad's in the
\* order it wrote them.
TickOrder ==
    /\ out = EventsInOrder(1)
    /\ now > 0 => \A j \in Ctrl : obs[j].branch # "none" /\ obs[j].at = now
    /\ \A j \in Ctrl : Count(out, j, "on") <= 1 /\ Len(EventsOf(j)) <= 2
    /\ \A j \in Cymbals : obs[j].branch = "choke" => EventsOf(j) = ChokeEvents(j)

\* the pedal, the hi-hat and the crash have all written in one pass
TickOrderWitness ==
    /\ Len(EventsOf(-1)) = 1
    /\ Len(EventsOf(CHIMBAL_PAD)) = 1
    /\ EventsOf(ATAQUE_BORDA_PAD) = ChokeEvents(ATAQUE_BORDA_PAD)
    /\ Len(out) = 4


\* the choke confirmation of cymbal j entered `before' ms before the wrap and
\* stepped d ms later, with silent sensors
ChokeProbe(j, before, d) ==
    DualChoke([Globals EXCEPT !.padState[j] = PAD_STATE_CHOKE_CONFIRMATION,
                              !.stateChangeTime[j] = ClockMod - before],
              j, <<0, 0, 0, 0>>, (ClockMod - before + d) % ClockMod)

\* C18: the timed tests use the elapsed time modulo the width of the clock:
\* for a hit played across the wrap of millis(), the peak window ends 7 ms,
\* the silent debounce 30 ms and the repique check 180 ms of true time after
\* the state was entered, the decayed threshold is the one of the true elapsed
\* time, a weak hit that comes less than one period of the clock after the
\* last write of lastHighVelocityMidiTime is discarded exactly when less than
\* 130 ms of true time passed since that write, and a choke confirmation
\* entered before the wrap waits exactly 20 ms.
TimedTestsAcrossWrap ==
    (env.mode = "wrap" /\ env.phase # "boot") =>
        LET h == env.hit
            o == obs[h]
            e == env.elapsed
        IN
        /\ o.from = PAD_STATE_PEAK_DETECTION =>
              (o.branch = "window" <=> e < PEAK_DETECTION_WINDOW_MS)
        /\ o.from = PAD_STATE_SILENT_DEBOUNCE =>
              (o.branch = "silent" <=> e < SILENT_DEBOUNCE_MS)
        /\ o.from = PAD_STATE_REPIQUE_CHECK =>
              /\ o.branch = "repique_end" <=> e >= REPIQUE_CHECK_MS
              /\ o.branch # "repique_end" =>
                    o.level = currentRetriggerThreshold(h, e,
                                  retriggerThresholdInitialDecay[h])
        /\ (o.branch \in FireBranches \cup {"discard"} /\ env.sinceHigh < ClockMod) =>
              (o.branch = "discard" <=>
                  /\ Max2(o.vP, o.vS) < LOW_VELOCITY_DISCARD_THRESHOLD
                  /\ env.sinceHigh < CROSSTALK_WINDOW_MS)
        /\ \A j \in Cymbals, before \in {1, CHOKE_CONFIRMATION_TIME_MS - 1},
              d \in {CHOKE_CONFIRMATION_TIME_MS - 1, CHOKE_CONFIRMATION_TIME_MS} :
              ChokeProbe(j, before, d).obs[j].branch = "choke_wait"
                  <=> d < CHOKE_CONFIRMATION_TIME_MS

\* the struck pad entered the state it was in before the wrap, after the quiet
\* time, and the last pass came after the wrap
EnteredBeforeWrap ==
    /\ env.mode = "wrap" /\ env.phase # "boot"
    /\ env.true - env.elapsed < ClockMod /\ env.true >= ClockMod
    /\ env.true - env.elapsed >= env.start

\* a silent debounce entered before the wrap ended after it, 30 ms later
TimedTestsAcrossWrapWitness ==
    /\ EnteredBeforeWrap
    /\ obs[env.hit].from = PAD_STATE_SILENT_DEBOUNCE
    /\ obs[env.hit].branch # "silent"
    /\ env.elapsed = SILENT_DEBOUNCE_MS

\* the three bytes an event puts on the serial line, src/main.c:649-651 and 672-674
Frame(ev) == <<IF ev.type = "on" THEN 144 ELSE 128, ev.note, ev.velocity>>

\* the frames written in the last pass
Frames == [i \in 1 .. Len(out) |-> Frame(out[i])]

\* the pass at time t of scenario 1 on the snare has just run
SnareScenarioAt(t) ==
    env.mode = "scenario" /\ env.hit = CAIXA_PAD /\ env.tick = t + 1

\* C19 (as the code has it): in scenario 1 the snare writes nothing before
\* t = 9, and at t = 9 it fires with captured peak 300 and writes the single
\* frame 0x90 0x26 0x27: note 38 with velocity 39 = map(300, 55, 1023, 10, 127).
Scenario1Frame ==
    /\ (env.mode = "scenario" /\ env.hit = CAIXA_PAD /\ env.tick <= 9) =>
          (out = <<>> /\ env.fired = -1)
    /\ SnareScenarioAt(9) =>
          /\ obs[CAIXA_PAD].from = PAD_STATE_PEAK_DETECTION
          /\ obs[CAIXA_PAD].branch = "head"
          /\ peakSensorValues[CAIXA_PAD] = 300
          /\ Frames = <<(<<144, 38, 39>>)>>
          /\ env.fired = 9

\* C19 (as stated): at t = 9 the frame is 0x90 0x26 0x30, velocity 48
Scenario1FrameVelocity48 ==
    SnareScenarioAt(9) =>
        /\ peakSensorValues[CAIXA_PAD] = 300
        /\ Frames = <<(<<144, 38, 48>>)>>

\* the snare has fired in the pass at t = 9 of scenario 1
Scenario1FrameWitness ==
    /\ SnareScenarioAt(9)
    /\ Len(out) = 1 /\ out[1].type = "on" /\ out[1].who = CAIXA_PAD

\* time since the pass in which the struck pad of SpecScen fired
SinceFired == now - env.fired

VoiceEvents(events, f) == {i \in 1 .. Len(events) : FlagOf(events[i].note) = f}

\* whether the voice with flag f sounds after `events', having sounded (or not:
\* before) before them: its last event decides, if it has one
SoundsAfter(events, f, before) ==
    IF VoiceEvents(events, f) = {} THEN before
    ELSE LET last == CHOOSE i \in VoiceEvents(events, f) :
                        \A k \in VoiceEvents(events, f) : k <= i
         IN events[last].type = "on"

\* C21: no flag is set before the first event, and every pass leaves each of
\* the eight flags true exactly when the voice's last event so far is a
\* note-on: a pass without an event of the voice leaves the flag as it was,
\* and otherwise the last event of the voice in the pass decides it.
FlagsFollowEvents ==
    /\ (now = 0 /\ out = <<>>) => \A f \in FlagNames : ~playing[f]
    /\ [][\A f \in FlagNames : playing'[f] = SoundsAfter(out', f, playing[f])]_vars

\* a pass wrote a note-off of one flagged voice and a note-on of another, and
\* the flags show it
FlagsFollowEventsWitness ==
    \E i, k \in 1 .. Len(out) :
        /\ out[i].type = "off" /\ FlagOf(out[i].note) # ""
        /\ out[k].type = "on" /\ FlagOf(out[k].note) # ""
        /\ ~playing[FlagOf(out[i].note)] /\ playing[FlagOf(out[k].note)]

\* the channels of the controller at loop position j
Own(j) == IF j \in SimplePads THEN {j} ELSE {j, j + 1}

\* the step of pad j from the globals s, all its sensors reading v, at clock value t
StepWith(s, j, v, t) ==
    IF j \in SimplePads THEN SimplePad(s, j, v, t)
    ELSE DualPad(s, j, v, v, <<v, v, v, v>>, t)

\* the per-pad registers of the channels C in the globals s
Registers(s, C) ==
    [c \in C |-> <<s.padState[c], s.stateChangeTime[c], s.peakSensorValues[c],
                   s.retriggerThresholdInitialDecay[c]>>]

\* the clock values the pad steps of PadsIndependent are taken at
FrameTimes == {AfterWindow, (now + REPIQUE_CHECK_MS) % ClockMod}

\* the globals with the registers of every channel outside C overwritten
Scrambled(C, t) ==
    [Globals EXCEPT
        !.padState = [c \in Chan |-> IF c \in C THEN @[c] ELSE PAD_STATE_REPIQUE_CHECK],
        !.stateChangeTime = [c \in Chan |-> IF c \in C THEN @[c] ELSE t],
        !.peakSensorValues = [c \in Chan |-> IF c \in C THEN @[c] ELSE ADC_MAX],
        !.retriggerThresholdInitialDecay = [c \in Chan |-> IF c \in C THEN @[c] ELSE ADC_MAX]]

\* C22: the step of one pad leaves the state, entry time, peaks and retrigger
\* seed of every channel of the other pads, and the pedal state, as they
\* were; and what it does (its own registers, its events, the flags and
\* lastHighVelocityMidiTime afterwards) is the same whatever the registers of
\* the other pads hold: nothing but lastHighVelocityMidiTime, the voice flags
\* and the pedal state passes from one pad to another.
PadsIndependent ==
    \A j \in Ctrl, v \in ProbeReadings, t \in FrameTimes :
        \A a \in {StepWith(Globals, j, v, t)}, b \in {StepWith(Scrambled(Own(j), t), j, v, t)} :
            /\ Registers(a, Chan \ Own(j)) = Registers(Globals, Chan \ Own(j))
            /\ a.pedalChimbalState = pedalChimbalState
            /\ a.lastPedalChimbalState = lastPedalChimbalState
            /\ Registers(b, Own(j)) = Registers(a, Own(j))
            /\ b.out = a.out
            /\ b.lastHighVelocityMidiTime = a.lastHighVelocityMidiTime
            /\ b.playing = a.playing

\* one pad is about to fire and set lastHighVelocityMidiTime while another is in
\* the middle of a hit
PadsIndependentWitness ==
    \E j \in Ctrl, k \in Ctrl :
        /\ j # k
        /\ ResolvesAt(j, AfterWindow)
        /\ StepWith(Globals, j, 0, AfterWindow).out # <<>>
        /\ StepWith(Globals, j, 0, AfterWindow).lastHighVelocityMidiTime = AfterWindow
        /\ lastHighVelocityMidiTime # AfterWindow
        /\ padState[k] # PAD_STATE_IDLE /\ peakSensorValues[k] > 0

\* retriggerInitial + (threshold - retriggerInitial) x e / 180 in the integer
\* arithmetic of C
Interpolated(j, e) ==
    retriggerThresholdInitialDecay[j]
    + CDiv((Thr(j) - retriggerThresholdInitialDecay[j]) * e, REPIQUE_CHECK_MS)

\* the level a reading must exceed at elapsed time e: the larger of the
\* interpolated level and the lower bound
RepiqueBound(j, e) == Max2(Interpolated(j, e), RetriggerFloor(j))

\* the step of pad j at clock value t with readings <<principal, secundario>>
\* (a simple pad reads the first)
StepZones(j, k, t) ==
    IF j \in SimplePads THEN SimplePad(Globals, j, k[1], t)
    ELSE DualPad(Globals, j, k[1], k[2], <<k[1], k[1], k[2], k[2]>>, t)

\* readings tried on pad j at elapsed time e: the scenario's, and those at and
\* just above the level, on either sensor
RepiqueReadings(j, e) ==
    LET vs == {0, 100, 300, Min2(RepiqueBound(j, e), ADC_MAX),
               Min2(RepiqueBound(j, e) + 1, ADC_MAX)}
    IN IF j \in SimplePads THEN {<<v, 0>> : v \in vs}
       ELSE {<<v, 0>> : v \in vs} \cup {<<0, v>> : v \in vs}

\* the next pass 1 ms later, and the pass 180 ms after the entry
RepiqueTimes(j) == {(now + 1) % ClockMod, (stateChangeTime[j] + REPIQUE_CHECK_MS) % ClockMod}

MaxPeak(j) ==
    IF j \in SimplePads THEN peakSensorValues[j]
    ELSE Max2(peakSensorValues[j], peakSensorValues[j + 1])

\* x times 1.5, rounded down and rounded up
TimesOneAndHalfDown(x) == (3 * x) \div 2
TimesOneAndHalfUp(x) == (3 * x + 1) \div 2

\* the pad at loop position j wrote a hit in the last pass
Fired(j) == obs[j].from = PAD_STATE_PEAK_DETECTION /\ obs[j].branch \in FireBranches

\* C24 (as the code has it): whenever a hit fires, the pad's retrigger seed is
\* max(floor(threshold x 1.5), min(retriggerThreshold, floor(largest peak x 1.5))),
\* the largest peak being the larger of both peaks for a dual-zone pad, whose
\* secondary entry gets the same value.
RetriggerSeedOnFire ==
    \A j \in Ctrl :
        Fired(j) =>
            /\ retriggerThresholdInitialDecay[j] =
                  Max2(TimesOneAndHalfDown(Thr(j)),
                       Min2(retriggerThreshold[j + 1], TimesOneAndHalfDown(MaxPeak(j))))
            /\ j \in DualPads =>
                  retriggerThresholdInitialDecay[j + 1] = retriggerThresholdInitialDecay[j]

\* C24 (as stated): the lower bound is ceil(threshold x 1.5)
RetriggerSeedOnFireCeiling ==
    \A j \in Ctrl :
        Fired(j) =>
            retriggerThresholdInitialDecay[j] =
                Max2(TimesOneAndHalfUp(Thr(j)),
                     Min2(retriggerThreshold[j + 1], TimesOneAndHalfDown(MaxPeak(j))))

\* a snare hit in which only the rim exceeded its threshold has fired
RetriggerSeedOnFireWitness ==
    /\ Fired(CAIXA_PAD)
    /\ peakSensorValues[CAIXA_PAD] <= Thr(CAIXA_PAD)
    /\ peakSensorValues[ARO_CAIXA_PAD] > Thr(ARO_CAIXA_PAD)
    /\ out # <<>>

\* a note-on event of loop position j
OnEvent(j, note, velocity) ==
    [type |-> "on", note |-> note, velocity |-> velocity, who |-> j]

\* a note-off event of loop position j
OffEvent(j, note) == [type |-> "off", note |-> note, velocity |-> 0, who |-> j]

\* C25: a fired snare hit with peaks Pp, Ps and velocities Vp, Vs writes
\* exactly one event, a note-on: the rimshot (40) with max(Vp, Vs) if Pp > 600
\* and Ps > 80; else the rim (39) with Vs if Pp < 1000 and 1.1 Ps > Pp; else
\* the head (38) with Vp.  Pp = 720, Ps = 160 gives note 40.
SnareVoice ==
    Fired(CAIXA_PAD) =>
        LET Pp == peakSensorValues[CAIXA_PAD]
            Ps == peakSensorValues[ARO_CAIXA_PAD]
            Vp == Velocity(CAIXA_PAD, Pp)
            Vs == Velocity(ARO_CAIXA_PAD, Ps)
        IN
        /\ EventsOf(CAIXA_PAD) =
              IF Pp > 600 /\ Ps > 2 * 40 THEN <<OnEvent(CAIXA_PAD, 40, Max2(Vp, Vs))>>
              ELSE IF Pp < 1000 /\ 11 * Ps > 10 * Pp THEN <<OnEvent(CAIXA_PAD, 39, Vs)>>
              ELSE <<OnEvent(CAIXA_PAD, 38, Vp)>>
        /\ (Pp = 720 /\ Ps = 160) => out[1].note = 40

\* the rimshot of scenario 5 has fired
SnareVoiceWitness ==
    /\ Fired(CAIXA_PAD)
    /\ peakSensorValues[CAIXA_PAD] = 720 /\ peakSensorValues[ARO_CAIXA_PAD] = 160
    /\ Len(out) = 1 /\ out[1].note = MIDI_NOTE_RIMSHOT

\* C26: a fired ride or crash hit with peaks Pp (bow), Ps (bell) writes: one
\* note-on of the bell with Vs if Pp < 1000 and Ps > Pp; else, if
\* Ps < 0.05 Pp, no note-on but the note-offs of bow and bell, bow first;
\* else one note-on of the bow with Vp.  No two of the three cases hold
\* together, and one always does.
CymbalVoice ==
    \A j \in Cymbals :
        Fired(j) =>
            LET Pp == peakSensorValues[j]
                Ps == peakSensorValues[j + 1]
                Vp == Velocity(j, Pp)
                Vs == Velocity(j + 1, Ps)
                bell == Pp < 1000 /\ Ps > Pp
                grab == ~bell /\ 20 * Ps < Pp
                bow == ~bell /\ ~grab
            IN
            /\ bell => EventsOf(j) = <<OnEvent(j, Note(j + 1), Vs)>>
            /\ grab => EventsOf(j) = <<OffEvent(j, Note(j)), OffEvent(j, Note(j + 1))>>
            /\ bow => EventsOf(j) = <<OnEvent(j, Note(j), Vp)>>
            /\ ~(Pp < 1000 /\ Ps > Pp /\ 20 * Ps < Pp)

\* a cymbal has written the two note-offs of an edge grab, bow first
CymbalVoiceWitness ==
    \E j \in Cymbals :
        /\ Fired(j)
        /\ 20 * peakSensorValues[j + 1] < peakSensorValues[j]
        /\ Len(out) = 2 /\ out[1].note = Note(j) /\ out[2].note = Note(j + 1)
        /\ out[1].type = "off" /\ out[2].type = "off"

\* readings tried on a pad in SILENT_DEBOUNCE: silence and full scale on each sensor
SilentReadings == {<<0, 0>>, <<ADC_MAX, 0>>, <<0, ADC_MAX>>, <<ADC_MAX, ADC_MAX>>}

\* clock values tried on pad j in SILENT_DEBOUNCE: the next millisecond, the
\* last one inside the debounce, the first one after it, and a late one
SilentTimes(j) ==
    {(now + 1) % ClockMod,
     (stateChangeTime[j] + SILENT_DEBOUNCE_MS - 1) % ClockMod,
     (stateChangeTime[j] + SILENT_DEBOUNCE_MS) % ClockMod,
     (now + REPIQUE_CHECK_MS) % ClockMod}

PeakIsWindowMaximum ==
    env.mode = "hit" =>
        /\ (padState[env.hit] = PAD_STATE_PEAK_DETECTION
            \/ obs[env.hit].from = PAD_STATE_PEAK_DETECTION) =>
              PeaksOf(env.hit) = env.best
        /\ (env.before.st = PAD_STATE_PEAK_DETECTION
            /\ padState[env.hit] = PAD_STATE_PEAK_DETECTION) =>
              /\ PeaksOf(env.hit)[1] >= env.before.pk[1]
              /\ PeaksOf(env.hit)[2] >= env.before.pk[2]

\* the struck pad resolved in a pass that read more than the captured peak,
\* after a pass inside the window had raised the peak
PeakIsWindowMaximumWitness ==
    /\ env.mode = "hit"
    /\ Fired(env.hit)
    /\ reading[env.hit] > peakSensorValues[env.hit]
    /\ env.before.st = PAD_STATE_PEAK_DETECTION
    /\ peakSensorValues[env.hit] > Thr(env.hit) + 1

\* the globals with cymbal j in CHOKE_CONFIRMATION since the last pass, with
\* peaks pp and ps (the program itself never enters the state: src/main.c:507)
InChokeConfirmation(j, pp, ps) ==
    [Globals EXCEPT !.padState[j] = PAD_STATE_CHOKE_CONFIRMATION,
                    !.stateChangeTime[j] = now,
                    !.peakSensorValues[j] = pp,
                    !.peakSensorValues[j + 1] = ps]

\* peaks and readings the choke confirmation is tried with
ChokePeaks == {0, 20, 30, Thr(CONDUCAO_BORDA_PAD) + 1, Strong}
ChokeRereads == {0, Strong + 1}

\* The outcome of the choke confirmation of cymbal j, entered with peaks pp, ps,
\* d ms after the entry with both sensors reading v: what the claim says, with
\* the peaks that a return to PEAK_DETECTION leaves either retained or zeroed.
ChokeOutcome(j, pp, ps, v, d, retained) ==
    LET r == DualChoke([InChokeConfirmation(j, pp, ps) EXCEPT !.who = j], j,
                       <<v, v, v, v>>, (now + d) % ClockMod)
        Pp == Max2(pp, v)
        Ps == Max2(ps, v)
        peaks == <<r.peakSensorValues[j], r.peakSensorValues[j + 1]>>
    IN
    IF d < CHOKE_CONFIRMATION_TIME_MS
    THEN /\ r.padState[j] = PAD_STATE_CHOKE_CONFIRMATION
         /\ peaks = <<Pp, Ps>>
         /\ r.out = <<>>
         /\ r.stateChangeTime[j] = now
    ELSE IF 20 * Ps < Pp \/ Ps < 20
    THEN /\ r.out = <<OffEvent(j, Note(j)), OffEvent(j, Note(j + 1))>>
         /\ r.padState[j] = PAD_STATE_IDLE
         /\ peaks = <<0, 0>>
    ELSE IF Pp > Thr(j) \/ Ps > Thr(j + 1)
    THEN /\ r.out = <<>>
         /\ r.padState[j] = PAD_STATE_PEAK_DETECTION
         /\ r.stateChangeTime[j] = (now + d) % ClockMod
         /\ peaks = IF retained THEN <<Pp, Ps>> ELSE <<0, 0>>
    ELSE /\ r.out = <<>>
         /\ r.padState[j] = PAD_STATE_IDLE
         /\ peaks = <<0, 0>>

ChokeConfirmationZeroesPeaks ==
    \A j \in Cymbals, pp \in ChokePeaks, ps \in ChokePeaks, v \in ChokeRereads,
       d \in {CHOKE_CONFIRMATION_TIME_MS - 1, CHOKE_CONFIRMATION_TIME_MS} :
        ChokeOutcome(j, pp, ps, v, d, FALSE)

\* the pads that are neither ride nor crash
NotCymbals == Ctrl \ Cymbals

\* the reached globals with only the state of pad j overwritten by CHOKE_CONFIRMATION
ForcedChoke(j) == [Globals EXCEPT !.padState[j] = PAD_STATE_CHOKE_CONFIRMATION]

\* the clock values the forced pads are processed at: in the same pass and
\* when the confirmation time has passed
ForcedTimes == {now, (now + CHOKE_CONFIRMATION_TIME_MS) % ClockMod}

\* pad j, found in CHOKE_CONFIRMATION, writes no event and goes to IDLE in that
\* pass, leaving the peaks given and its other registers and the flags alone
ForcedToIdle(j, v, t, peaks) ==
    \A r \in {StepWith(ForcedChoke(j), j, v, t)} :
        /\ r.out = <<>>
        /\ r.playing = playing
        /\ r.padState[j] = PAD_STATE_IDLE
        /\ [c \in Own(j) |-> r.peakSensorValues[c]] = peaks
        /\ r.stateChangeTime = stateChangeTime
        /\ r.retriggerThresholdInitialDecay = retriggerThresholdInitialDecay
        /\ r.lastHighVelocityMidiTime = lastHighVelocityMidiTime
        /\ \A c \in Ctrl \ {j} : r.padState[c] = padState[c]
        /\ \A c \in (0 .. (NUM_PADS - 1)) \ Own(j) :
                r.peakSensorValues[c] = peakSensorValues[c]

NeverInChokeConfirmation ==
    \A j \in Ctrl :
        /\ padState[j] # PAD_STATE_CHOKE_CONFIRMATION
        /\ obs[j].from # PAD_STATE_CHOKE_CONFIRMATION
        /\ j \in Cymbals /\ obs[j].branch = "choke"
            => /\ EventsOf(j) = ChokeEvents(j)
               /\ padState[j] = PAD_STATE_SILENT_DEBOUNCE
               /\ stateChangeTime[j] = now

\* a cymbal has just been resolved as a potential choke
NeverInChokeConfirmationWitness ==
    \E j \in Cymbals :
        /\ obs[j].branch = "choke"
        /\ EventsOf(j) = ChokeEvents(j)
        /\ padState[j] = PAD_STATE_SILENT_DEBOUNCE

---------------------------------------------------------------------------
(* SpecOwn: one cymbal played freely with a bell stroke that the gain of    *)
(* the ride's bell turns into a strong hit, and a light bow stroke.          *)

\* a bow reading that exceeds the decayed retrigger level 30 ms into the
\* repique check of the bell stroke and maps to a velocity below the discard
\* threshold, over a bell reading that is neither a bell hit nor an edge grab
LightBow == <<192, 20>>

SettingsOwn ==
    {[pads |-> {j},
      offer |-> (j :> (QuietStrokes(j) \cup {<<Thr(j), 147>>, LightBow}))] : j \in Cymbals}

InitOwn ==
    /\ InitProgram
    /\ \E g \in SettingsOwn :
          env = [mode |-> "free", hit |-> -1, pads |-> g.pads, offer |-> g.offer,
                 quiet |-> TRUE, phase |-> "free", clear |-> FALSE]

SpecOwn == InitOwn /\ [][Next]_vars

\* pad c has fired at least once: every fire writes a seed above 0 and nothing
\* else writes the seed (src/main.c:342, 534-535)
HasFired(c) == retriggerThresholdInitialDecay[c] > 0

\* lastHighVelocityMidiTime holds the time of a strong hit of pad j itself: it
\* has been written, and no other pad has ever fired
SetByOwnHit(j) ==
    /\ lastHighVelocityMidiTime > 0
    /\ HasFired(j)
    /\ \A c \in Ctrl \ {j} : ~HasFired(c)

\* C32: a weak hit is discarded as crosstalk only within 130 ms after a strong
\* hit on another pad: a pad's own earlier strong hit never makes a later weak
\* hit of that same pad be discarded.
OwnStrongHitNeverDiscards ==
    \A j \in Ctrl : ~(obs[j].branch = "discard" /\ SetByOwnHit(j))

\* a stored peak of pad j is strictly above its threshold (either zone's, for
\* a dual-zone pad)
PeakAboveThreshold(j) ==
    \/ peakSensorValues[j] > Thr(j)
    \/ j \in DualPads /\ peakSensorValues[j + 1] > Thr(j + 1)

\* C33: a pad in PEAK_DETECTION holds a peak strictly above its threshold (for
\* a dual-zone pad: the primary peak above the primary threshold or the
\* secondary peak above the secondary threshold), so no pass takes the branch
\* that ends the window with the peaks at or below threshold and returns to
\* IDLE without firing, and none would at the end of the window.
PeakDetectionHoldsPeak ==
    \A j \in Ctrl :
        /\ padState[j] = PAD_STATE_PEAK_DETECTION => PeakAboveThreshold(j)
        /\ obs[j].branch # "below"
        /\ padState[j] = PAD_STATE_PEAK_DETECTION
            => StepOf(j, AfterWindow).obs[j].branch # "below"

\* a dual-zone pad has entered PEAK_DETECTION from REPIQUE_CHECK on its
\* secondary sensor alone
PeakDetectionHoldsPeakWitness ==
    \E j \in DualPads :
        /\ padState[j] = PAD_STATE_PEAK_DETECTION
        /\ obs[j].branch = "retrigger"
        /\ peakSensorValues[j] <= Thr(j)
        /\ peakSensorValues[j + 1] > Thr(j + 1)

---------------------------------------------------------------------------
(* SpecRoll: one pass per millisecond; one pad is struck with a full reading *)
(* in the first pass and after that reads either nothing or the full value   *)
(* in every pass, every other sensor silent.  env.fired is the time of the   *)
(* pass in which the pad last wrote a note-on and env.prev the time of the   *)
(* one before (-1: none).                                                    *)

\* passes of SpecRoll are explored while millis() is at most MaxTimeRoll
MaxTimeRoll == 100

\* the pads the roll is played on
RollPads == {TOM2_PAD, CAIXA_PAD}

\* what the struck sensor may read in the pass at time t
RollReadings(t) == IF t = 0 THEN {ADC_MAX} ELSE {0, ADC_MAX}

InitRoll ==
    /\ InitProgram
    /\ \E j \in RollPads :
          env = [mode |-> "roll", hit |-> j, pads |-> {j},
                 offer |-> (j :> {<<0, 0>>}), quiet |-> TRUE, phase |-> "free",
                 clear |-> FALSE, tick |-> 0, fired |-> -1, prev |-> -1]

NextRoll ==
    \E v \in RollReadings(env.tick) :
        \E rd \in {ReadingOf(env.pads, env.hit :> <<v, 0>>)} :
            /\ env.tick <= MaxTimeRoll
            /\ \E r \in {LoopResult(HIGH, rd, env.tick, env.tick)} :
                Pass(HIGH, rd, env.tick, env.tick,
                     [env EXCEPT !.quiet = @ /\ AllQuiet(HIGH, rd),
                                 !.tick = @ + 1,
                                 !.fired = IF Count(r.out, env.hit, "on") > 0
                                           THEN env.tick ELSE @,
                                 !.prev = IF Count(r.out, env.hit, "on") > 0
                                          THEN env.fired ELSE @],
                     {env.hit})

SpecRoll == InitRoll /\ [][NextRoll]_vars

HiHatFlagsFollowPedal ==
    /\ ~(playing["chimbalOpenSoundPlaying"] /\ playing["chimbalClosedSoundPlaying"])
    /\ playing["chimbalOpenSoundPlaying"] => pedalChimbalState = HIGH
    /\ playing["chimbalClosedSoundPlaying"] => pedalChimbalState = LOW
    /\ pedalChimbalState = lastPedalChimbalState

\* the pedal was pressed while the open hi-hat sounded, in the pass in which a
\* hi-hat hit is resolved: the pedal block switched the open voice off and the
\* hit sounds the closed one
HiHatFlagsFollowPedalWitness ==
    /\ pedalChimbalState = LOW
    /\ playing["chimbalClosedSoundPlaying"]
    /\ ~playing["chimbalOpenSoundPlaying"]
    /\ obs[CHIMBAL_PAD].branch = "fire"
    /\ \E i \in 1 .. Len(out) :
          out[i] = [type |-> "off", note |-> MIDI_NOTE_CHIMBAL_OPEN, velocity |-> 0,
                    who |-> -1]
\* C36: a hit is discarded as crosstalk only if a pad other than the kick wrote
\* a note-on with velocity above 115 less than 130 ms earlier; in particular
\* no hit is discarded while no pad has fired yet, as in the first 130 ms
\* after startup.
DiscardOnlyAfterStrongHit ==
    \A j \in Ctrl :
        obs[j].branch = "discard"
            => /\ \E c \in Ctrl \ {BUMBO_PAD} : HasFired(c)
               /\ lastHighVelocityMidiTime > 0

\* C37: lastHighVelocityMidiTime changes only in a pass in which the pad that
\* changes it also wrote a note-on with velocity above 115; a ride/crash
\* potential choke, which writes only note-offs, never changes it.
HighTimeOnlyWithStrongNoteOn ==
    /\ (lastHighVelocityMidiTime = now /\ now > 0)
          => \E i \in 1 .. Len(out) :
                /\ out[i].type = "on"
                /\ out[i].who \in Ctrl
                /\ out[i].velocity > HIGH_VELOCITY_THRESHOLD
    /\ \A j \in Cymbals :
          (obs[j].branch = "choke" /\ now > 0) => lastHighVelocityMidiTime # now

\* the notes of the note-ons written by loop position j in the last pass
OnNotes(j) ==
    {out[i].note : i \in {i \in 1 .. Len(out) : out[i].who = j /\ out[i].type = "on"}}

\* the primary (z = 0) or secondary (z = 1) peak of pad j is above its own threshold
ZoneAbove(j, z) == peakSensorValues[j + z] > Thr(j + z)

\* the snare's head peak is at or below its threshold, the rim peak is above
\* its own and is not dominant
HeadBelowRimNotDominant ==
    /\ ~ZoneAbove(CAIXA_PAD, 0)
    /\ ZoneAbove(CAIXA_PAD, 1)
    /\ ~IsRimDominant(peakSensorValues[CAIXA_PAD], peakSensorValues[ARO_CAIXA_PAD])

\* peaks the zone logic is tried with: around the thresholds of the dual-zone
\* pads and around the limit of the dominance tests
ZonePeaks == {0, 34, 35, 36, 39, 40, 41, 45, 46, 50, 54, 55, 56, 62, 999, 1000, ADC_MAX}

\* C38 as amended: a dual-zone pad writes the note-on of a zone's voice (snare
\* rim 39, bow 50/49, bell 53/51) only when that zone's own peak is strictly
\* above that sensor's own threshold; the snare head 38 is written when the
\* head peak is above its threshold and also when it is not but the rim peak,
\* above its own threshold, is not dominant (1.1 x rim peak <= head peak).
\* The second part tries the zone logic on the peaks of ZonePeaks, once, at
\* startup.
ZoneSoundedAboveThreshold ==
    /\ \A j \in DualPads :
        Fired(j) =>
            /\ Note(j + 1) \in OnNotes(j) => ZoneAbove(j, 1)
            /\ (Note(j) \in OnNotes(j) /\ j \in Cymbals) => ZoneAbove(j, 0)
            /\ (Note(j) \in OnNotes(j) /\ j = CAIXA_PAD)
                  => ZoneAbove(j, 0) \/ HeadBelowRimNotDominant
    /\ now = 0 => \A j \in DualPads, pp \in ZonePeaks, ps \in ZonePeaks :
        (pp > Thr(j) \/ ps > Thr(j + 1)) =>
            /\ DualZone(j, pp, ps) \in {"rim", "bell"} => ps > Thr(j + 1)
            /\ DualZone(j, pp, ps) = "bow" => pp > Thr(j)
            /\ DualZone(j, pp, ps) = "head"
                  => pp > Thr(j) \/ (ps > Thr(j + 1) /\ ~IsRimDominant(pp, ps))

\* C38 as stated: the zone that is sounded always has its own peak strictly
\* above its own threshold.
ZoneSoundedAlwaysAboveThreshold ==
    \A j \in DualPads :
        Fired(j) =>
            /\ Note(j + 1) \in OnNotes(j) => ZoneAbove(j, 1)
            /\ Note(j) \in OnNotes(j) => ZoneAbove(j, 0)

\* the snare has fired on a rim peak just above its threshold and sounded the
\* head, whose peak is at its threshold
ZoneSoundedAboveThresholdWitness ==
    /\ Fired(CAIXA_PAD)
    /\ peakSensorValues[CAIXA_PAD] = Thr(CAIXA_PAD)
    /\ peakSensorValues[ARO_CAIXA_PAD] = Thr(ARO_CAIXA_PAD) + 1
    /\ out = <<OnEvent(CAIXA_PAD, Note(CAIXA_PAD), minVelocity)>>

---------------------------------------------------------------------------
(* SpecQuiet: one pad is played for a while ("play") and then, from some     *)
(* pass on, all its readings stay at or below the thresholds ("quiet"),      *)
(* while the passes go on and the clock advances with each of them, through  *)
(* its wrap.  env.since is the time since the first quiet pass, counted      *)
(* while the pad is not IDLE.                                                *)

\* the pad is played while millis() is at most MaxTimeQuiet
MaxTimeQuiet == 80

\* the longest time between two passes while the pad settles
SettleStep == SILENT_DEBOUNCE_MS

\* time between two passes once the pad is IDLE and quiet
IdleStep == ClockMod \div 8

\* the pads that are played and then left alone, each with its quiet strokes
\* and one full stroke
SettingsQuiet ==
    {[pads |-> {j},
      offer |-> (j :> (QuietStrokes(j) \cup {<<ADC_MAX, ADC_MAX>>}))] :
        j \in {TOM2_PAD, CAIXA_PAD, CONDUCAO_BORDA_PAD}}

InitQuiet ==
    /\ InitProgram
    /\ \E g \in SettingsQuiet :
          env = [mode |-> "settle", hit |-> CHOOSE j \in g.pads : TRUE, pads |-> g.pads,
                 offer |-> g.offer, quiet |-> TRUE, phase |-> "play", clear |-> FALSE,
                 since |-> 0]

\* a pass while the pad is played
Play ==
    \E d \in Delays(env.pads), k \in StrokeChoices(env.pads, env.offer) :
        /\ env.phase = "play"
        /\ now + d <= MaxTimeQuiet
        /\ Pass(HIGH, ReadingOf(env.pads, k), now + d, now + d,
                [env EXCEPT !.quiet = @ /\ AllQuiet(HIGH, ReadingOf(env.pads, k))], {})

\* a pass from the first quiet one on: readings at or below the thresholds,
\* the clock d ms further
Settle ==
    \E d \in IF padState[env.hit] = PAD_STATE_IDLE /\ env.phase = "quiet"
             THEN {IdleStep} ELSE {ShortDelay, SettleStep} :
    \E k \in StrokeChoices(env.pads, [j \in env.pads |-> QuietStrokes(j)]) :
        Pass(HIGH, ReadingOf(env.pads, k), (now + d) % ClockMod, (now + d) % ClockMod,
             [env EXCEPT !.phase = "quiet",
                         !.since = IF env.phase = "play" THEN 0
                                   ELSE IF padState[env.hit] = PAD_STATE_IDLE THEN @
                                   ELSE @ + d],
             {})

NextQuiet == Play \/ Settle

\* the clock advances: a pass has run d ms after the last one
Tick == now' \in {(now + d) % ClockMod : d \in {ShortDelay, SettleStep, IdleStep}}

\* loop() is called again for ever and millis() advances between the calls;
\* the passes of Play end with MaxTimeQuiet, so those that go on are Settle's
SpecQuiet == InitQuiet /\ [][NextQuiet]_vars /\ WF_now(Tick)

\* the played pad is IDLE and has written nothing in the last pass
Settled == padState[env.hit] = PAD_STATE_IDLE /\ EventsOf(env.hit) = <<>>

\* C39: if the passes go on with an advancing clock and from some pass on all
\* readings of a pad stay at or below its thresholds, the pad reaches IDLE and
\* then stays IDLE for ever and writes no further event; it is IDLE when
\* 7 + 30 + 180 = 217 ms and one pass interval for each of the three timed
\* states have gone by since the first quiet pass.
QuietPadSettles ==
    /\ (env.phase = "quiet") ~> Settled
    /\ [][(env.phase = "quiet" /\ padState[env.hit] = PAD_STATE_IDLE)
             => /\ padState'[env.hit] = PAD_STATE_IDLE
                /\ \A i \in 1 .. Len(out') : out'[i].who # env.hit]_vars
    /\ [](env.phase = "quiet" /\ env.since >= 217 + 3 * SettleStep
             => padState[env.hit] = PAD_STATE_IDLE)

\* the pad, struck in the last pass before the quiet ones, has gone through
\* the three timed states and has just left REPIQUE_CHECK for IDLE, more than
\* 217 ms after the first quiet pass
QuietPadSettlesWitness ==
    /\ env.mode = "settle" /\ env.phase = "quiet"
    /\ env.since >= PEAK_DETECTION_WINDOW_MS + SILENT_DEBOUNCE_MS + REPIQUE_CHECK_MS
    /\ obs[env.hit].branch = "repique_end"
    /\ padState[env.hit] = PAD_STATE_IDLE

\* the level a reading of pad j must exceed e ms into its repique check
LevelAt(j, e) == currentRetriggerThreshold(j, e, retriggerThresholdInitialDecay[j])

\* the thresholds of the sensors of pad j
OnsetThresholds(j) == {Thr(c) : c \in Own(j)}

\* readings tried on a pad in REPIQUE_CHECK: at its thresholds, and at and
\* just above the level of the pass
LevelReadings(j, e) ==
    OnsetThresholds(j) \cup {Min2(LevelAt(j, e), ADC_MAX), Min2(LevelAt(j, e) + 1, ADC_MAX)}

\* C40: whenever a pad is in REPIQUE_CHECK its retrigger seed is at least its
\* threshold, the level a reading must exceed never rises with the elapsed
\* time and is always strictly above the onset threshold of either sensor of
\* the pad: a reading that retriggers the pad would also be an onset from
\* IDLE, and no reading at or below the threshold retriggers.
RetriggerAboveOnset ==
    \A j \in Ctrl :
        padState[j] = PAD_STATE_REPIQUE_CHECK =>
            /\ retriggerThresholdInitialDecay[j] >= Thr(j)
            /\ \A e \in 0 .. (REPIQUE_CHECK_MS - 1) :
                  /\ \A th \in OnsetThresholds(j) : LevelAt(j, e) > th
                  /\ e > 0 => LevelAt(j, e) <= LevelAt(j, e - 1)
            /\ \A e \in {USub(now, stateChangeTime[j]), REPIQUE_CHECK_MS - 1} :
               \A p \in LevelReadings(j, e), q \in LevelReadings(j, e) :
               \A r \in {StepZones(j, <<p, q>>, (stateChangeTime[j] + e) % ClockMod)} :
                  r.obs[j].branch = "retrigger"
                      => /\ IF j \in SimplePads THEN Onset(j, p) ELSE OnsetDual(j, p, q)
                         /\ p > LevelAt(j, e) \/ (j \in DualPads /\ q > LevelAt(j, e))

\* a snare in REPIQUE_CHECK whose level has decayed below its seed, and which
\* a rim reading just above the level retriggers
RetriggerAboveOnsetWitness ==
    /\ padState[CAIXA_PAD] = PAD_STATE_REPIQUE_CHECK
    /\ \E e \in {USub(now, stateChangeTime[CAIXA_PAD])} :
        /\ e > 0 /\ e < REPIQUE_CHECK_MS
        /\ LevelAt(CAIXA_PAD, e) < retriggerThresholdInitialDecay[CAIXA_PAD]
        /\ StepZones(CAIXA_PAD, <<0, LevelAt(CAIXA_PAD, e) + 1>>, now).obs[CAIXA_PAD].branch
              = "retrigger"
        /\ StepZones(CAIXA_PAD, <<0, LevelAt(CAIXA_PAD, e)>>, now).obs[CAIXA_PAD].branch
              = "repique_wait"

====
